---- MODULE Spec2Model ----
(***************************************************************************)
(* Model of the yrs_uniffi boundary layer: the document's single mutable   *)
(* transaction slot, the YTransaction wrapper (commit / drop), and the     *)
(* shared-collection handles (Prelim / Integrated) of the XML types with   *)
(* the integration of buffered subtrees into the live document.            *)
(***************************************************************************)
EXTENDS Integers, Sequences, FiniteSets, TLC

\* ---------------------------------------------------------------- bounds
MaxTxn == 2          \* YTransaction objects alive at the same time
MaxHandles == 3      \* handle objects (Arc<YXml...>) the caller holds
MaxNodes == 3        \* branches the engine store holds
MaxKids == 1         \* buffered children of one Prelim element or fragment
MaxText == 2         \* characters buffered in one Prelim YText
MaxClock == 2        \* changes replica D makes
MaxOwn == 1          \* changes replica R makes itself

T == 1..MaxTxn
H == 1..MaxHandles
N == 1..MaxNodes

Origins == {"none", "o1"}            \* Option<String> origin of YDoc.transaction
Keys == {"class"}                    \* attribute names
Vals == {"a"}                        \* attribute values
Absent == "absent"                   \* no entry under a key
NoAttrs == [k \in Keys |-> Absent]
Texts == {<<"h">>}                   \* buffered strings of a new YXmlText
XmlKinds == {"elem", "frag", "xtext"}
InitAttrs == {NoAttrs}               \* attributes given to a constructor
Names == {"t", "u"}                  \* names given to YDoc.get_text
AttrArgs == {"none", "{}", "[]", "x"} \* Option<String> attributes: None, a JSON
                                     \* map, other JSON, no JSON

VARIABLES
    txn,        \* YTransaction objects: [st, committed, origin]
    open,       \* engine TransactionMut instances holding the document's slot
    cell,       \* per handle object: the SharedCollection it wraps
    nodes,      \* the engine store: the branches of the document
    dirty,      \* the store holds changes no engine commit has published
    bound,      \* history: <<handle, branch>>, the value behind the handle
                \* was integrated as that branch
    last,       \* the last boundary call, its result, and the engine writes
                \* it made, in order
    crashed,    \* the process was aborted (stack overflow, use after free)
    docs,       \* the replicas that exchange updates: per document the
                \* blocks its store holds and whether a YTransaction is open
    held,       \* the payloads the caller holds: a state vector, an update
    io          \* the argument and the result of the last conversion call

vars == <<txn, open, cell, nodes, dirty, bound, last, crashed, docs, held, io>>

\* ---------------------------------------------------------------- data
NoTxn == [st |-> "none", committed |-> FALSE, origin |-> "none"]
\* yrs::Any, and YValue with the same fields: the tag, and the payload of
\* the tag's variant
ANull == [t |-> "Null", b |-> FALSE, n |-> 0, s |-> "", a |-> <<>>, m |-> <<>>]
AUndefined == [ANull EXCEPT !.t = "Undefined"]
ABool(b) == [ANull EXCEPT !.t = "Bool", !.b = b]
ANumber(n) == [ANull EXCEPT !.t = "Number", !.n = n]
ABigInt(n) == [ANull EXCEPT !.t = "BigInt", !.n = n]
AString(s) == [ANull EXCEPT !.t = "String", !.s = s]
ABuffer(a) == [ANull EXCEPT !.t = "Buffer", !.a = a]
AArray(a) == [ANull EXCEPT !.t = "Array", !.a = a]
AMap(m) == [ANull EXCEPT !.t = "Map", !.m = m]
NoIo == [fn |-> "none", done |-> TRUE, src |-> ANull, given |-> FALSE,
         text |-> <<>>, some |-> FALSE, err |-> "", out |-> ANull]
Docs == {"D", "R"}                   \* two replicas, each its own client
NoClock == [c \in Docs |-> 0]
NoSv == [enc |-> "none", at |-> NoClock, of |-> "none"]
NoUpd == [enc |-> "none", from |-> NoClock, to |-> NoClock, src |-> "none",
          sv |-> "none", by |-> "none", orphan |-> FALSE]
NoCell == [st |-> "none", kind |-> "none", node |-> 0,
           attrs |-> NoAttrs, children |-> <<>>, text |-> <<>>]
NoNode == [kind |-> "none", children |-> <<>>,
           attrs |-> NoAttrs, text |-> <<>>, deleted |-> FALSE, name |-> ""]

\* collection.rs SharedCollection::prelim
PrelimCell(kind, attrs, children, text) ==
    [st |-> "prelim", kind |-> kind, node |-> 0,
     attrs |-> attrs, children |-> children, text |-> text]

\* collection.rs SharedCollection::integrated / Integrated::new: the hook of
\* the branch (its id) and the document.
IntegratedCell(kind, n) ==
    [st |-> "integrated", kind |-> kind, node |-> n,
     attrs |-> NoAttrs, children |-> <<>>, text |-> <<>>]

\* collection.rs SharedCollection::is_prelim
IsPrelim(c) == c.st = "prelim"

FreshNode(kind) == [NoNode EXCEPT !.kind = kind]

\* the record of a call: peak is the number of engine transactions open on
\* the document while it ran
\* the value a call returns next to Ok: a length, a string, an attribute or a
\* bool
NoVal == [n |-> 0, s |-> <<>>, a |-> Absent, b |-> FALSE]

Call(op, res) ==
    [op |-> op, res |-> res, uaf |-> FALSE, peak |-> Cardinality(open),
     log |-> <<>>, val |-> NoVal]

LiveTxns == {t \in T : txn[t].st = "live"}
TxnArgs == {0} \cup LiveTxns         \* Option<Arc<YTransaction>>, 0 is None
FreeHandles == {h \in H : cell[h].st = "none"}
NewHandle == CHOOSE h \in FreeHandles : \A g \in FreeHandles : h <= g
FreeTxns == {t \in T : txn[t].st = "none"}
NewTxn == CHOOSE t \in FreeTxns : \A u \in FreeTxns : t <= u
XmlHandles == {h \in H : cell[h].kind \in XmlKinds}
HandlesOf(kind) == {h \in H : cell[h].kind = kind}
\* children given to a constructor: none, or one existing XML handle
KidSeqs == {<<>>} \cup {<<c>> : c \in XmlHandles}
FreeNodes(ns) == {n \in N : ns[n].kind = "none"}
Alloc(ns) == CHOOSE n \in FreeNodes(ns) : \A m \in FreeNodes(ns) : n <= m

InsertAt(s, i, x) == SubSeq(s, 1, i) \o <<x>> \o SubSeq(s, i + 1, Len(s))
RemoveAt(s, i) == SubSeq(s, 1, i) \o SubSeq(s, i + 2, Len(s))

\* xml_frag.rs YXmlFragment::new_with_collection over
\* SharedCollection::integrated: the handle of the document's root fragment
RootCell == IntegratedCell("frag", 1)

\* doc.rs YDoc::new; the caller holds handle 1 on the root XML fragment
Init ==
    /\ txn = [t \in T |-> NoTxn]
    /\ open = {}
    /\ cell = [h \in H |-> IF h = 1 THEN RootCell ELSE NoCell]
    /\ nodes = [n \in N |-> IF n = 1 THEN FreshNode("frag") ELSE NoNode]
    /\ dirty = FALSE
    /\ bound = {}
    /\ last = [op |-> "new", res |-> "Ok", uaf |-> FALSE, peak |-> 0,
               log |-> <<>>, val |-> NoVal]
    /\ crashed = FALSE
    /\ docs = [d \in Docs |-> [have |-> NoClock, tx |-> FALSE, before |-> NoClock]]
    /\ held = [sv |-> NoSv, upd |-> NoUpd]
    /\ io = NoIo

\* ---------------------------------------------------------------- transactions

\* Variant of CommitInner: the engine commit without the ManuallyDrop::drop,
\* so the TransactionMut keeps the slot.
CommitInnerKeepsSlot(t) ==
    /\ dirty' = FALSE
    /\ open' = open

\* transaction.rs YTransactionInner::commit, the branch taken when the flag is
\* not set: the engine commit, then ManuallyDrop::drop of the TransactionMut,
\* which frees the document's slot. The callers set the flag.
CommitInner(t) ==
    /\ dirty' = FALSE
    /\ open' = open \ {t}

\* Variant of Transaction: transact_mut in place of try_transact_mut, with
\* nothing that refuses a second transaction.
TransactionUnchecked(o) ==
    /\ ~crashed
    /\ UNCHANGED <<docs, held, io>>
    /\ FreeTxns # {}
    /\ txn' = [txn EXCEPT ![NewTxn] =
                  [st |-> "live", committed |-> FALSE, origin |-> o]]
    /\ open' = open \cup {NewTxn}
    /\ last' = [Call("transaction", "Ok") EXCEPT !.peak = Cardinality(open) + 1]
    /\ UNCHANGED <<cell, nodes, dirty, bound, crashed>>

\* doc.rs YDoc::transaction: try_transact_mut(_with), Err -> AnotherRwTx.
Transaction(o) ==
    /\ ~crashed
    /\ UNCHANGED <<docs, held, io>>
    /\ IF open = {}
       THEN /\ FreeTxns # {}
            /\ txn' = [txn EXCEPT ![NewTxn] =
                          [st |-> "live", committed |-> FALSE, origin |-> o]]
            /\ open' = open \cup {NewTxn}
            /\ last' = [Call("transaction", "Ok")
                          EXCEPT !.peak = Cardinality(open) + 1]
       ELSE /\ UNCHANGED <<txn, open>>
            /\ last' = Call("transaction", "AnotherRwTx")
    /\ UNCHANGED <<cell, nodes, dirty, bound, crashed>>

\* Variant of Commit: a commit of a committed transaction is a silent no-op.
CommitAgain(t) ==
    /\ ~crashed
    /\ UNCHANGED <<docs, held, io>>
    /\ txn[t].st = "live"
    /\ IF ~txn[t].committed
       THEN /\ CommitInner(t)
            /\ txn' = [txn EXCEPT ![t].committed = TRUE]
       ELSE UNCHANGED <<txn, open, dirty>>
    /\ last' = Call("commit", "Ok")
    /\ UNCHANGED <<cell, nodes, bound, crashed>>

\* transaction.rs YTransaction::commit -> YTransactionInner::commit
Commit(t) ==
    /\ ~crashed
    /\ UNCHANGED <<docs, held, io>>
    /\ txn[t].st = "live"
    /\ IF ~txn[t].committed
       THEN /\ CommitInner(t)
            /\ txn' = [txn EXCEPT ![t].committed = TRUE]
            /\ last' = Call("commit", "Ok")
       ELSE /\ UNCHANGED <<txn, open, dirty>>
            /\ last' = Call("commit", "TxnCommitted")
    /\ UNCHANGED <<cell, nodes, bound, crashed>>

\* Variant of DropTxn: no Drop implementation, the wrapper is forgotten with
\* its ManuallyDrop field and nothing is committed.
DropTxnNoCommit(t) ==
    /\ ~crashed
    /\ UNCHANGED <<docs, held, io>>
    /\ txn[t].st = "live"
    /\ txn' = [txn EXCEPT ![t] = NoTxn]
    /\ last' = Call("drop", "Ok")
    /\ UNCHANGED <<open, dirty, cell, nodes, bound, crashed>>

\* Variant of DropTxn: drop commits without a look at the flag; the second
\* ManuallyDrop::drop of a committed transaction releases the slot again,
\* whoever holds it.
DropTxnReleasesAgain(t) ==
    /\ ~crashed
    /\ UNCHANGED <<docs, held, io>>
    /\ txn[t].st = "live"
    /\ dirty' = FALSE
    /\ open' = (IF txn[t].committed THEN {} ELSE open \ {t})
    /\ txn' = [txn EXCEPT ![t] = NoTxn]
    /\ last' = Call("drop", "Ok")
    /\ UNCHANGED <<cell, nodes, bound, crashed>>

\* transaction.rs Drop for YTransactionInner: the caller releases the last
\* reference to the YTransaction; an uncommitted one is committed.
DropTxn(t) ==
    /\ ~crashed
    /\ UNCHANGED <<docs, held, io>>
    /\ txn[t].st = "live"
    /\ IF ~txn[t].committed
       THEN CommitInner(t)
       ELSE UNCHANGED <<open, dirty>>
    /\ txn' = [txn EXCEPT ![t] = NoTxn]
    /\ last' = Call("drop", "Ok")
    /\ UNCHANGED <<cell, nodes, bound, crashed>>

\* ---------------------------------------------------------------- access

\* Variant of Access: a call without a transaction opens its own next to the
\* one that holds the slot.
AccessUnguarded(topt) ==
    IF topt = 0
    THEN "implicit"
    ELSE (IF txn[topt].committed THEN "released" ELSE "explicit")

\* collection.rs Integrated::readonly / mutably: the transaction the closure
\* runs in. None: transact_mut() (try_transact_mut, Err -> AnotherTx).
\* Some(txn): the wrapped TransactionMut, with no look at the committed flag.
Access(topt) ==
    IF topt = 0
    THEN (IF open = {} THEN "implicit" ELSE "busy")
    ELSE (IF txn[topt].committed THEN "released" ELSE "explicit")

\* collection.rs Integrated::resolve: hook.get(txn) is None for a deleted branch
Disposed(h) == nodes[cell[h].node].deleted

\* the effect of a closure that changes nothing
NoEffect(res) ==
    [res |-> res, ns |-> nodes, cells |-> cell, got |-> {}, log |-> <<>>, at |-> 0,
     val |-> NoVal]

\* Variant of Outcomes: the closure runs on the hook without resolve.
OutcomesUnresolved(h, topt, body) ==
    LET a == Access(topt)
        run(commit, uaf) ==
            [eff |-> body, commit |-> commit, uaf |-> uaf, ran |-> TRUE]
    IN  CASE a = "busy" ->
                {[eff |-> NoEffect("AnotherTx"), commit |-> FALSE,
                  uaf |-> FALSE, ran |-> FALSE]}
          [] a = "implicit" -> {run(TRUE, FALSE)}
          [] a = "explicit" -> {run(FALSE, FALSE)}
          [] a = "released" ->
                {run(FALSE, TRUE),
                 [eff |-> NoEffect("Abort"), commit |-> FALSE,
                  uaf |-> TRUE, ran |-> FALSE]}

\* collection.rs Integrated::mutably / readonly: the outcomes of running a
\* closure whose effect is body = [res, ns, cells, got] on the Integrated
\* handle h. A committed transaction's TransactionMut has been dropped in
\* place: the dereference is a use after free, which either goes on as if the
\* transaction were open or aborts the process.
Outcomes(h, topt, body) ==
    LET a == Access(topt)
        run(commit, uaf) ==
            [eff |-> IF Disposed(h) THEN NoEffect("RefDisposed") ELSE body,
             commit |-> commit, uaf |-> uaf, ran |-> ~Disposed(h)]
    IN  CASE a = "busy" ->
                {[eff |-> NoEffect("AnotherTx"), commit |-> FALSE,
                  uaf |-> FALSE, ran |-> FALSE]}
          [] a = "implicit" -> {run(TRUE, FALSE)}
          [] a = "explicit" -> {run(FALSE, FALSE)}
          [] a = "released" ->
                {run(FALSE, TRUE),
                 [eff |-> NoEffect("Abort"), commit |-> FALSE,
                  uaf |-> TRUE, ran |-> FALSE]}

\* Variant of Local: the call takes the document's transaction slot before it
\* looks at the buffer.
LocalThroughSlot(op, res) ==
    /\ last' = Call(op, IF open # {} THEN "AnotherTx" ELSE res)
    /\ UNCHANGED <<txn, open, nodes, dirty, bound, crashed>>

\* Variant of Finish: every call publishes its changes on return, inside a
\* caller's transaction too.
FinishPublishesEarly(op, o) ==
    /\ nodes' = o.eff.ns
    /\ bound' = bound \cup o.eff.got
    /\ dirty' = FALSE
    /\ crashed' = (o.eff.res \in {"Abort", "Overflow"})
    /\ last' = [op |-> op, res |-> o.eff.res, uaf |-> o.uaf,
                peak |-> Cardinality(open) + (IF o.commit THEN 1 ELSE 0),
                log |-> o.eff.log, val |-> o.eff.val]
    /\ UNCHANGED <<txn, open>>

\* Variant of Finish: the implicit transaction is not committed on return.
FinishKeepsPending(op, o) ==
    /\ nodes' = o.eff.ns
    /\ bound' = bound \cup o.eff.got
    /\ dirty' = (dirty \/ o.eff.ns # nodes)
    /\ crashed' = (o.eff.res \in {"Abort", "Overflow"})
    /\ last' = [op |-> op, res |-> o.eff.res, uaf |-> o.uaf,
                peak |-> Cardinality(open) + (IF o.commit THEN 1 ELSE 0),
                log |-> o.eff.log, val |-> o.eff.val]
    /\ UNCHANGED <<txn, open>>

\* The store, the slot and the call record after a call on an Integrated
\* handle ended with outcome o; an implicit TransactionMut commits on drop.
Finish(op, o) ==
    /\ nodes' = o.eff.ns
    /\ bound' = bound \cup o.eff.got
    /\ dirty' = IF o.commit THEN FALSE ELSE (dirty \/ o.eff.ns # nodes)
    /\ crashed' = (o.eff.res \in {"Abort", "Overflow"})
    /\ last' = [op |-> op, res |-> o.eff.res, uaf |-> o.uaf,
                peak |-> Cardinality(open) + (IF o.commit THEN 1 ELSE 0),
                log |-> o.eff.log, val |-> o.eff.val]
    /\ UNCHANGED <<txn, open>>

\* A call that ended in the handle's own buffer (or before any access).
Local(op, res) ==
    /\ last' = Call(op, res)
    /\ UNCHANGED <<txn, open, nodes, dirty, bound, crashed>>

\* A read that ended in the handle's own buffer and returned v.
LocalVal(op, v) ==
    /\ last' = [Call(op, "Ok") EXCEPT !.val = v]
    /\ UNCHANGED <<txn, open, nodes, dirty, bound, crashed>>

\* yrs::Origin::from(String) and Origin::as_ref().to_vec(): the bytes of the
\* tag
OriginBytes(o) ==
    CASE o = "o1" -> <<"o", "1">>
      [] OTHER -> <<>>

\* Variant of Origin: the transaction was begun by try_transact_mut, which
\* drops the tag.
OriginUnset(t) ==
    /\ ~crashed
    /\ UNCHANGED <<docs, held, io>>
    /\ txn[t].st = "live"
    /\ ~txn[t].committed
    /\ LocalVal("origin", NoVal)
    /\ UNCHANGED cell

\* transaction.rs YTransaction::origin: the tag of the wrapped TransactionMut,
\* None when it has none. There is no look at the committed flag: on a
\* committed transaction the read is a use after free, which returns what
\* the freed memory holds or aborts.
Origin(t) ==
    /\ ~crashed
    /\ UNCHANGED <<docs, held, io>>
    /\ txn[t].st = "live"
    /\ IF ~txn[t].committed
       THEN /\ LocalVal("origin",
                    [NoVal EXCEPT !.b = (txn[t].origin # "none"),
                                  !.s = OriginBytes(txn[t].origin)])
            /\ UNCHANGED cell
       ELSE \/ /\ \E o \in Origins :
                    last' = [Call("origin", "Ok") EXCEPT
                               !.uaf = TRUE,
                               !.val = [NoVal EXCEPT !.b = (o # "none"),
                                                     !.s = OriginBytes(o)]]
               /\ UNCHANGED <<txn, open, cell, nodes, dirty, bound, crashed>>
            \/ /\ last' = [Call("origin", "Abort") EXCEPT !.uaf = TRUE]
               /\ crashed' = TRUE
               /\ UNCHANGED <<txn, open, cell, nodes, dirty, bound>>

\* ---------------------------------------------------------------- buffered trees

\* the handles buffered as children of the Prelim payloads of S
Kids(S) ==
    UNION {{cell[h].children[i] : i \in DOMAIN cell[h].children} : h \in S}

RECURSIVE Closure(_, _)
Closure(S, k) == IF k = 0 THEN S ELSE Closure(S \cup Kids(S), k - 1)

\* proper descendants of h in the buffered tree
Below(h) == Closure(Kids({h}), MaxHandles)
Subtree(h) == {h} \cup Below(h)
Cyclic(h) == \E d \in Subtree(h) : d \in Below(d)

RECURSIVE TreeSize(_), SumSizes(_, _)
TreeSize(h) == 1 + SumSizes(cell[h].children, 1)
SumSizes(cs, k) ==
    IF k > Len(cs) THEN 0 ELSE TreeSize(cs[k]) + SumSizes(cs, k + 1)

\* Variant of AssertXmlPrelim: the check is left out.
AssertXmlPrelimSkipped(c) == TRUE

\* xml.rs YXmlChild::assert_xml_prelim
AssertXmlPrelim(c) == IsPrelim(cell[c])

\* the branches of the subtree rooted at branch n
RECURSIVE Under(_, _)
Under(ns, n) ==
    {n} \cup UNION {Under(ns, ns[n].children[i]) : i \in DOMAIN ns[n].children}

\* engine remove_range(index, 1): the child and all below it are deleted
RemoveChild(ns, p, i) ==
    LET gone == Under(ns, ns[p].children[i + 1])
    IN  [n \in N |->
            IF n = p THEN [ns[n] EXCEPT !.children = RemoveAt(@, i)]
            ELSE IF n \in gone THEN [ns[n] EXCEPT !.deleted = TRUE]
            ELSE ns[n]]

\* ---------------------------------------------------------------- integration

\* xml.rs Prelim for YXmlChild::integrate, the mem::replace of each arm: the
\* Integrated collection is put into a new Arc that replaces the by-value
\* `cell` of the call; the object the caller's Arc (and every buffered clone
\* of it) points to is left as it was.
ReplaceCell(cells, c, n) == cells

\* One engine write of an integration: ev "node" is the allocation of branch
\* n under branch p, "text" and "attr" are writes on branch n; by is the
\* handle whose payload is being copied (0 for the value the call was given),
\* prelim what that handle's collection is at the moment of the write.
Event(ev, n, p, by, cells) ==
    [ev |-> ev, n |-> n, p |-> p, by |-> by,
     prelim |-> IF by = 0 THEN FALSE ELSE IsPrelim(cells[by])]

\* the attribute names in the order the payload's HashMap yields them
KeyOrder == <<"class">>

\* xml.rs Prelim::integrate, `for (name, value) in &raw.attributes`:
\* one insert_attribute per buffered attribute
AttrEvents(n, c, cells, attrs) ==
    LET Set(k) == attrs[k] # Absent
        ks == SelectSeq(KeyOrder, Set)
    IN  [j \in 1..Len(ks) |-> Event("attr", n, 0, c, cells)]

RECURSIVE BuildNode(_, _, _, _), PushAll(_, _, _, _)
\* engine insert of YXmlChild c under branch p at index i, on the effect s
\* so far: into_content allocates the branch, then xml.rs Prelim::integrate
\* replaces the cell and copies the payload it read from the old value: text
\* then attributes (Text arm), children then attributes (Element arm),
\* children (Fragment arm); nothing for an Integrated old value.
BuildNode(s, c, p, i) ==
    LET n == Alloc(s.ns)
        raw == s.cells[c]
        s1 == [s EXCEPT !.ns = [s.ns EXCEPT ![n] = FreshNode(raw.kind),
                                            ![p].children = InsertAt(@, i, n)],
                        !.cells = ReplaceCell(s.cells, c, n),
                        !.got = s.got \cup {<<c, n>>},
                        !.log = Append(s.log, Event("node", n, p, s.at, s.cells))]
        attrs(s2) ==
            [s2 EXCEPT !.ns[n].attrs = raw.attrs,
                       !.log = s2.log \o AttrEvents(n, c, s2.cells, raw.attrs)]
        kids(s2) ==
            [PushAll([s2 EXCEPT !.at = c], n, raw.children, 1) EXCEPT !.at = s.at]
    IN  IF ~IsPrelim(raw) THEN s1
        ELSE CASE raw.kind = "xtext" ->
                    attrs([s1 EXCEPT !.ns[n].text = raw.text,
                                     !.log = Append(s1.log,
                                         Event("text", n, 0, c, s1.cells))])
               [] raw.kind = "elem" -> attrs(kids(s1))
               [] OTHER -> kids(s1)
\* push_back of each buffered child, in order
PushAll(s, p, cs, k) ==
    IF k > Len(cs) THEN s
    ELSE PushAll(BuildNode(s, cs[k], p, Len(s.ns[p].children)), p, cs, k + 1)

\* xml.rs YXmlChild::type_ref panics on an Integrated element
TypeRefPanics(c) == cell[c].kind = "elem" /\ ~IsPrelim(cell[c])

\* The closure of insert / push / insert_embed on an Integrated parent h:
\* the engine's index check, into_content (type_ref), then the integration.
\* A buffered tree that contains itself never stops recursing.
InsertBody(h, i, c) ==
    LET p == cell[h].node
    IN  IF i > Len(nodes[p].children) \/ TypeRefPanics(c)
        THEN NoEffect("Panic")
        ELSE IF Cyclic(c) THEN NoEffect("Overflow")
        ELSE BuildNode(NoEffect("Ok"), c, p, i)

\* the buffered tree of c fits into the free branches of the store
Fits(c) ==
    IF Cyclic(c) THEN TRUE ELSE TreeSize(c) <= Cardinality(FreeNodes(nodes))

\* number of children of the value behind h
LenOf(h) ==
    IF IsPrelim(cell[h]) THEN Len(cell[h].children)
    ELSE Len(nodes[cell[h].node].children)

\* ---------------------------------------------------------------- constructors

\* xml_elem.rs YXmlElement::new
NewElement(attrs, children) ==
    /\ ~crashed
    /\ UNCHANGED <<docs, held, io>>
    /\ FreeHandles # {}
    /\ IF \E i \in DOMAIN children : ~AssertXmlPrelim(children[i])
       THEN /\ cell' = cell
            /\ Local("elem.new", "NotPrelim")
       ELSE /\ cell' = [cell EXCEPT ![NewHandle] =
                            PrelimCell("elem", attrs, children, <<>>)]
            /\ Local("elem.new", "Ok")

\* xml_frag.rs YXmlFragment::new
NewFragment(children) ==
    /\ ~crashed
    /\ UNCHANGED <<docs, held, io>>
    /\ FreeHandles # {}
    /\ IF \E i \in DOMAIN children : ~AssertXmlPrelim(children[i])
       THEN /\ cell' = cell
            /\ Local("frag.new", "NotPrelim")
       ELSE /\ cell' = [cell EXCEPT ![NewHandle] =
                            PrelimCell("frag", NoAttrs, children, <<>>)]
            /\ Local("frag.new", "Ok")

\* xml_text.rs YXmlText::new
NewXmlText(text, attrs) ==
    /\ ~crashed
    /\ UNCHANGED <<docs, held, io>>
    /\ FreeHandles # {}
    /\ cell' = [cell EXCEPT ![NewHandle] = PrelimCell("xtext", attrs, <<>>, text)]
    /\ Local("xtext.new", "Ok")

\* ---------------------------------------------------------------- children

\* Variant of InsertChild: a child buffered in a Prelim parent is marked
\* Integrated at once.
InsertChildFlips(op, h, i, c, topt) ==
    /\ ~crashed
    /\ UNCHANGED <<docs, held, io>>
    /\ IF ~AssertXmlPrelim(c)
       THEN /\ cell' = cell
            /\ Local(op, "NotPrelim")
       ELSE IF IsPrelim(cell[h])
       THEN IF i > Len(cell[h].children)
            THEN /\ cell' = cell
                 /\ Local(op, "Panic")
            ELSE /\ Len(cell[h].children) < MaxKids
                 /\ cell' = [cell EXCEPT ![h].children = InsertAt(@, i, c),
                                         ![c] = IntegratedCell(cell[c].kind, 1)]
                 /\ Local(op, "Ok")
       ELSE /\ Fits(c)
            /\ \E o \in Outcomes(h, topt, InsertBody(h, i, c)) :
                  /\ Finish(op, o)
                  /\ cell' = o.eff.cells

\* xml_elem.rs YXmlElement::insert (xml_frag.rs YXmlFragment::insert is the
\* same code): assert_xml_prelim, then the buffer or the engine.
InsertChild(op, h, i, c, topt) ==
    /\ ~crashed
    /\ UNCHANGED <<docs, held, io>>
    /\ IF ~AssertXmlPrelim(c)
       THEN /\ cell' = cell
            /\ Local(op, "NotPrelim")
       ELSE IF IsPrelim(cell[h])
       THEN IF i > Len(cell[h].children)
            THEN /\ cell' = cell
                 /\ Local(op, "Panic")
            ELSE /\ Len(cell[h].children) < MaxKids
                 /\ cell' = [cell EXCEPT ![h].children = InsertAt(@, i, c)]
                 /\ Local(op, "Ok")
       ELSE /\ Fits(c)
            /\ \E o \in Outcomes(h, topt, InsertBody(h, i, c)) :
                  /\ Finish(op, o)
                  /\ cell' = o.eff.cells

\* xml_elem.rs YXmlElement::insert
ElemInsert(h, i, c, topt) == InsertChild("elem.insert", h, i, c, topt)

\* xml_elem.rs YXmlElement::push
ElemPush(h, c, topt) == InsertChild("elem.push", h, LenOf(h), c, topt)

\* xml_frag.rs YXmlFragment::insert
FragInsert(h, i, c, topt) == InsertChild("frag.insert", h, i, c, topt)

\* xml_frag.rs YXmlFragment::push
FragPush(h, c, topt) == InsertChild("frag.push", h, LenOf(h), c, topt)

\* Variant of DeleteBody: the handles of the deleted branches fall back to an
\* empty Prelim payload.
DeleteBodyResets(h, i) ==
    LET p == cell[h].node
    IN  IF i + 1 > Len(nodes[p].children)
        THEN NoEffect("Panic")
        ELSE [NoEffect("Ok") EXCEPT
                 !.ns = RemoveChild(nodes, p, i),
                 !.cells = [g \in H |->
                    IF /\ cell[g].st = "integrated"
                       /\ cell[g].node \in Under(nodes, nodes[p].children[i + 1])
                    THEN PrelimCell(cell[g].kind, NoAttrs, <<>>, <<>>)
                    ELSE cell[g]]]

\* the closure of delete on an Integrated parent: remove_range(index, 1)
DeleteBody(h, i) ==
    LET p == cell[h].node
    IN  IF i + 1 > Len(nodes[p].children)
        THEN NoEffect("Panic")
        ELSE [NoEffect("Ok") EXCEPT !.ns = RemoveChild(nodes, p, i)]

\* xml_elem.rs YXmlElement::delete (xml_frag.rs YXmlFragment::delete is the
\* same code), length = None: drain(index..index + 1) or remove_range.
DeleteChild(op, h, i, topt) ==
    /\ ~crashed
    /\ UNCHANGED <<docs, held, io>>
    /\ IF IsPrelim(cell[h])
       THEN IF i + 1 > Len(cell[h].children)
            THEN /\ cell' = cell
                 /\ Local(op, "Panic")
            ELSE /\ cell' = [cell EXCEPT ![h].children = RemoveAt(@, i)]
                 /\ Local(op, "Ok")
       ELSE \E o \in Outcomes(h, topt, DeleteBody(h, i)) :
               /\ Finish(op, o)
               /\ cell' = o.eff.cells

\* xml_elem.rs YXmlElement::delete
ElemDelete(h, i, topt) == DeleteChild("elem.delete", h, i, topt)

\* xml_frag.rs YXmlFragment::delete
FragDelete(h, i, topt) == DeleteChild("frag.delete", h, i, topt)

\* xml.rs YXmlChild::from_xml: a new handle object, Integrated from the start
FromXml(cells, n) == [cells EXCEPT ![NewHandle] = IntegratedCell(nodes[n].kind, n)]

\* xml_elem.rs YXmlElement::first_child (xml_frag.rs YXmlFragment::first_child
\* is the same code): the buffered first child, or from_xml of the live one.
FirstChild(op, h, topt) ==
    /\ ~crashed
    /\ UNCHANGED <<docs, held, io>>
    /\ IF IsPrelim(cell[h])
       THEN /\ cell' = cell
            /\ Local(op, "Ok")
       ELSE \E o \in Outcomes(h, topt, NoEffect("Ok")) :
               /\ Finish(op, o)
               /\ IF o.ran /\ nodes[cell[h].node].children # <<>>
                  THEN /\ FreeHandles # {}
                       /\ cell' = FromXml(cell, nodes[cell[h].node].children[1])
                  ELSE cell' = cell

\* xml_elem.rs YXmlElement::first_child
ElemFirstChild(h, topt) == FirstChild("elem.first_child", h, topt)

\* xml_frag.rs YXmlFragment::first_child
FragFirstChild(h, topt) == FirstChild("frag.first_child", h, topt)

\* engine siblings(): the live branch after n among the children of its
\* parent, 0 if there is none
NextOf(n) ==
    LET at == {pi \in N \X (1..MaxNodes) :
                  /\ ~nodes[pi[1]].deleted
                  /\ pi[2] \in DOMAIN nodes[pi[1]].children
                  /\ nodes[pi[1]].children[pi[2]] = n}
    IN  IF at = {} THEN 0
        ELSE LET pi == CHOOSE q \in at : TRUE
                 sibs == nodes[pi[1]].children
             IN  IF pi[2] < Len(sibs) THEN sibs[pi[2] + 1] ELSE 0

\* xml_elem.rs YXmlElement::next_sibling
ElemNextSibling(h, topt) ==
    /\ ~crashed
    /\ UNCHANGED <<docs, held, io>>
    /\ IF IsPrelim(cell[h])
       THEN /\ cell' = cell
            /\ Local("elem.next_sibling", "InvalidPrelimOp")
       ELSE \E o \in Outcomes(h, topt, NoEffect("Ok")) :
               /\ Finish("elem.next_sibling", o)
               /\ IF o.ran /\ NextOf(cell[h].node) # 0
                  THEN /\ FreeHandles # {}
                       /\ cell' = FromXml(cell, NextOf(cell[h].node))
                  ELSE cell' = cell

\* ---------------------------------------------------------------- attributes

\* xml_elem.rs YXmlElement::set_attribute (xml_text.rs YXmlText::set_attribute
\* is the same code); v = Absent is remove_attribute.
PutAttribute(op, h, k, v, topt) ==
    /\ ~crashed
    /\ UNCHANGED <<docs, held, io>>
    /\ IF IsPrelim(cell[h])
       THEN /\ cell' = [cell EXCEPT ![h].attrs[k] = v]
            /\ Local(op, "Ok")
       ELSE /\ cell' = cell
            /\ \E o \in Outcomes(h, topt,
                    [NoEffect("Ok") EXCEPT !.ns[cell[h].node].attrs[k] = v]) :
                  Finish(op, o)

\* xml_elem.rs YXmlElement::set_attribute
ElemSetAttribute(h, k, v, topt) == PutAttribute("elem.set_attribute", h, k, v, topt)

\* xml_elem.rs YXmlElement::remove_attribute
ElemRemoveAttribute(h, k, topt) ==
    PutAttribute("elem.remove_attribute", h, k, Absent, topt)

\* xml_text.rs YXmlText::set_attribute
XmlTextSetAttribute(h, k, v, topt) ==
    PutAttribute("xtext.set_attribute", h, k, v, topt)

\* ---------------------------------------------------------------- embeds

\* xml_text.rs YXmlText::insert_embed, index 0: no assert_xml_prelim; the
\* embedded branches of a live text are kept in the node's children.
XmlTextInsertEmbed(h, c, topt) ==
    /\ ~crashed
    /\ UNCHANGED <<docs, held, io>>
    /\ IF IsPrelim(cell[h])
       THEN /\ cell' = cell
            /\ Local("xtext.insert_embed", "InvalidPrelimOp")
       ELSE /\ Fits(c)
            /\ \E o \in Outcomes(h, topt, InsertBody(h, 0, c)) :
                  /\ Finish("xtext.insert_embed", o)
                  /\ cell' = o.eff.cells

\* ---------------------------------------------------------------- text

\* Variant of ParseAttrs: map_attrs lets every JSON value through.
ParseAttrsAnyJson(a) ==
    CASE a = "none" -> [err |-> "", some |-> FALSE]
      [] a \in {"{}", "[]"} -> [err |-> "", some |-> TRUE]
      [] OTHER -> [err |-> "InvalidFmt", some |-> FALSE]

\* attrs.rs parse_attrs: None, the parsed map, or InvalidFmt for a string that
\* is no JSON or no JSON map
ParseAttrs(a) ==
    CASE a = "none" -> [err |-> "", some |-> FALSE]
      [] a = "{}" -> [err |-> "", some |-> TRUE]
      [] OTHER -> [err |-> "InvalidFmt", some |-> FALSE]

\* text.rs YText::new_with_text
NewText(init) ==
    /\ ~crashed
    /\ UNCHANGED <<docs, held, io>>
    /\ FreeHandles # {}
    /\ cell' = [cell EXCEPT ![NewHandle] = PrelimCell("text", NoAttrs, <<>>, init)]
    /\ Local("text.new", "Ok")

\* Variant of TextInsert: the chunk is appended, as push does, whatever the
\* index.
TextInsertAppends(h, i, chunk, a, topt) ==
    /\ ~crashed
    /\ UNCHANGED <<docs, held, io>>
    /\ IF ParseAttrs(a).err # ""
       THEN /\ cell' = cell
            /\ Local("text.insert", ParseAttrs(a).err)
       ELSE IF IsPrelim(cell[h])
       THEN IF ParseAttrs(a).some
            THEN /\ cell' = cell
                 /\ Local("text.insert", "InvalidPrelimOp")
            ELSE /\ Len(cell[h].text) < MaxText
                 /\ cell' = [cell EXCEPT ![h].text = Append(@, chunk)]
                 /\ Local("text.insert", "Ok")
       ELSE /\ cell' = cell
            /\ Len(nodes[cell[h].node].text) < MaxText
            /\ \E o \in Outcomes(h, topt,
                    [NoEffect("Ok") EXCEPT
                        !.ns[cell[h].node].text = Append(@, chunk)]) :
                  Finish("text.insert", o)

\* text.rs YText::insert: parse_attrs, then the buffer (String::insert_str,
\* which panics past the end) or the engine.
TextInsert(h, i, chunk, a, topt) ==
    /\ ~crashed
    /\ UNCHANGED <<docs, held, io>>
    /\ IF ParseAttrs(a).err # ""
       THEN /\ cell' = cell
            /\ Local("text.insert", ParseAttrs(a).err)
       ELSE IF IsPrelim(cell[h])
       THEN IF ParseAttrs(a).some
            THEN /\ cell' = cell
                 /\ Local("text.insert", "InvalidPrelimOp")
            ELSE IF i > Len(cell[h].text)
            THEN /\ cell' = cell
                 /\ Local("text.insert", "Panic")
            ELSE /\ Len(cell[h].text) < MaxText
                 /\ cell' = [cell EXCEPT ![h].text = InsertAt(@, i, chunk)]
                 /\ Local("text.insert", "Ok")
       ELSE /\ cell' = cell
            /\ Len(nodes[cell[h].node].text) < MaxText
            /\ \E o \in Outcomes(h, topt,
                    IF i > Len(nodes[cell[h].node].text) THEN NoEffect("Panic")
                    ELSE [NoEffect("Ok") EXCEPT
                             !.ns[cell[h].node].text = InsertAt(@, i, chunk)]) :
                  Finish("text.insert", o)

\* Variant of TextPush: the buffer takes the chunk at its front.
TextPushFront(h, chunk, a, topt) ==
    /\ ~crashed
    /\ UNCHANGED <<docs, held, io>>
    /\ IF ParseAttrs(a).err # ""
       THEN /\ cell' = cell
            /\ Local("text.push", ParseAttrs(a).err)
       ELSE IF IsPrelim(cell[h])
       THEN IF ParseAttrs(a).some
            THEN /\ cell' = cell
                 /\ Local("text.push", "InvalidPrelimOp")
            ELSE /\ Len(cell[h].text) < MaxText
                 /\ cell' = [cell EXCEPT ![h].text = <<chunk>> \o @]
                 /\ Local("text.push", "Ok")
       ELSE /\ cell' = cell
            /\ Len(nodes[cell[h].node].text) < MaxText
            /\ \E o \in Outcomes(h, topt,
                    [NoEffect("Ok") EXCEPT
                        !.ns[cell[h].node].text = Append(@, chunk)]) :
                  Finish("text.push", o)

\* text.rs YText::push: parse_attrs, then the buffer (String::push_str, no
\* attributes) or the engine (push, or insert_with_attributes at len).
TextPush(h, chunk, a, topt) ==
    /\ ~crashed
    /\ UNCHANGED <<docs, held, io>>
    /\ IF ParseAttrs(a).err # ""
       THEN /\ cell' = cell
            /\ Local("text.push", ParseAttrs(a).err)
       ELSE IF IsPrelim(cell[h])
       THEN IF ParseAttrs(a).some
            THEN /\ cell' = cell
                 /\ Local("text.push", "InvalidPrelimOp")
            ELSE /\ Len(cell[h].text) < MaxText
                 /\ cell' = [cell EXCEPT ![h].text = Append(@, chunk)]
                 /\ Local("text.push", "Ok")
       ELSE /\ cell' = cell
            /\ Len(nodes[cell[h].node].text) < MaxText
            /\ \E o \in Outcomes(h, topt,
                    [NoEffect("Ok") EXCEPT
                        !.ns[cell[h].node].text = Append(@, chunk)]) :
                  Finish("text.push", o)

\* Variant of TextFormat: a buffered text accepts the formatting.
TextFormatLocal(h, a, topt) ==
    /\ ~crashed
    /\ UNCHANGED <<docs, held, io>>
    /\ cell' = cell
    /\ IF ParseAttrs(a).err # ""
       THEN Local("text.format", ParseAttrs(a).err)
       ELSE IF IsPrelim(cell[h])
       THEN Local("text.format", "Ok")
       ELSE \E o \in Outcomes(h, topt, NoEffect("Ok")) : Finish("text.format", o)

\* text.rs YText::format: parse_attrs (None cannot come back from Some), then
\* InvalidPrelimOp on a Prelim text; formatting changes no character.
TextFormat(h, a, topt) ==
    /\ ~crashed
    /\ UNCHANGED <<docs, held, io>>
    /\ cell' = cell
    /\ IF ParseAttrs(a).err # ""
       THEN Local("text.format", ParseAttrs(a).err)
       ELSE IF IsPrelim(cell[h])
       THEN Local("text.format", "InvalidPrelimOp")
       ELSE \E o \in Outcomes(h, topt, NoEffect("Ok")) : Finish("text.format", o)

\* ---------------------------------------------------------------- reads

\* Variant of Alive: a Prelim value is reported as not alive.
AlivePrelimFalse(h, t) ==
    /\ ~crashed
    /\ UNCHANGED <<docs, held, io>>
    /\ txn[t].st = "live"
    /\ cell' = cell
    /\ IF IsPrelim(cell[h])
       THEN LocalVal("alive", [NoVal EXCEPT !.b = FALSE])
       ELSE IF ~txn[t].committed
       THEN LocalVal("alive", [NoVal EXCEPT !.b = ~Disposed(h)])
       ELSE \E r \in {"Ok", "Abort"} :
               /\ last' = [Call("alive", r) EXCEPT
                              !.uaf = TRUE, !.val.b = (r = "Ok" /\ ~Disposed(h))]
               /\ crashed' = (r = "Abort")
               /\ UNCHANGED <<txn, open, nodes, dirty, bound>>

\* collection.rs SharedCollection::is_alive behind YXmlElement::alive(txn):
\* true on a Prelim value, hook.get(txn).is_some() on an Integrated one; the
\* transaction is the caller's and is dereferenced only on the Integrated arm.
Alive(h, t) ==
    /\ ~crashed
    /\ UNCHANGED <<docs, held, io>>
    /\ txn[t].st = "live"
    /\ cell' = cell
    /\ IF IsPrelim(cell[h])
       THEN LocalVal("alive", [NoVal EXCEPT !.b = TRUE])
       ELSE IF ~txn[t].committed
       THEN LocalVal("alive", [NoVal EXCEPT !.b = ~Disposed(h)])
       ELSE \E r \in {"Ok", "Abort"} :
               /\ last' = [Call("alive", r) EXCEPT
                              !.uaf = TRUE, !.val.b = (r = "Ok" /\ ~Disposed(h))]
               /\ crashed' = (r = "Abort")
               /\ UNCHANGED <<txn, open, nodes, dirty, bound>>

\* xml_elem.rs YXmlElement::length
ElemLength(h, topt) ==
    /\ ~crashed
    /\ UNCHANGED <<docs, held, io>>
    /\ cell' = cell
    /\ IF IsPrelim(cell[h])
       THEN LocalVal("elem.length", [NoVal EXCEPT !.n = Len(cell[h].children)])
       ELSE \E o \in Outcomes(h, topt,
                  [NoEffect("Ok") EXCEPT
                      !.val.n = Len(nodes[cell[h].node].children)]) :
               Finish("elem.length", o)

\* Variant of ElemGetAttribute: the closure gets or inserts the entry, as
\* get_or_insert_text does for roots.
ElemGetAttributeInserts(h, k, topt) ==
    /\ ~crashed
    /\ UNCHANGED <<docs, held, io>>
    /\ cell' = cell
    /\ IF IsPrelim(cell[h])
       THEN LocalVal("elem.get_attribute", [NoVal EXCEPT !.a = cell[h].attrs[k]])
       ELSE \E o \in Outcomes(h, topt,
                  [NoEffect("Ok") EXCEPT
                      !.ns = [nodes EXCEPT ![cell[h].node].attrs[k] =
                                 IF @ = Absent THEN "" ELSE @],
                      !.val.a = nodes[cell[h].node].attrs[k]]) :
               Finish("elem.get_attribute", o)

\* xml_elem.rs YXmlElement::get_attribute
ElemGetAttribute(h, k, topt) ==
    /\ ~crashed
    /\ UNCHANGED <<docs, held, io>>
    /\ cell' = cell
    /\ IF IsPrelim(cell[h])
       THEN LocalVal("elem.get_attribute", [NoVal EXCEPT !.a = cell[h].attrs[k]])
       ELSE \E o \in Outcomes(h, topt,
                  [NoEffect("Ok") EXCEPT !.val.a = nodes[cell[h].node].attrs[k]]) :
               Finish("elem.get_attribute", o)

\* the tag every YXmlElement of the model is constructed with
TagName == <<"p">>

\* xml_elem.rs YXmlElement::name
ElemName(h, topt) ==
    /\ ~crashed
    /\ UNCHANGED <<docs, held, io>>
    /\ cell' = cell
    /\ IF IsPrelim(cell[h])
       THEN LocalVal("elem.name", [NoVal EXCEPT !.s = TagName])
       ELSE \E o \in Outcomes(h, topt, [NoEffect("Ok") EXCEPT !.val.s = TagName]) :
               Finish("elem.name", o)

\* xml_elem.rs YXmlElement::attributes: the whole map; with the one key of
\* Keys the map is told by that key's entry
ElemAttributes(h, topt) ==
    /\ ~crashed
    /\ UNCHANGED <<docs, held, io>>
    /\ cell' = cell
    /\ IF IsPrelim(cell[h])
       THEN LocalVal("elem.attributes", [NoVal EXCEPT !.a = cell[h].attrs[KeyOrder[1]]])
       ELSE \E o \in Outcomes(h, topt,
                  [NoEffect("Ok") EXCEPT
                      !.val.a = nodes[cell[h].node].attrs[KeyOrder[1]]]) :
               Finish("elem.attributes", o)

\* engine get_string: the markup of the live branch n
RECURSIVE StoreString(_, _), StoreStrings(_, _, _)
StoreString(ns, n) ==
    CASE ns[n].kind = "elem" ->
            <<"<p">>
            \o (IF ns[n].attrs["class"] = Absent THEN <<>> ELSE <<"class=", ns[n].attrs["class"]>>)
            \o <<">">> \o StoreStrings(ns, ns[n].children, 1) \o <<"</p>">>
      [] ns[n].kind = "frag" -> StoreStrings(ns, ns[n].children, 1)
      [] OTHER -> ns[n].text
StoreStrings(ns, cs, k) ==
    IF k > Len(cs) THEN <<>>
    ELSE StoreString(ns, cs[k]) \o StoreStrings(ns, cs, k + 1)

\* xml_elem.rs PrelimXmElement::to_string: the strings of the buffered
\* children, one after the other; a buffered text is its string. A buffered
\* child is a Prelim handle (assert_xml_prelim let it in and no handle changes
\* its variant), so the readonly arm of a child is its markup.
RECURSIVE PrelimString(_), PrelimStrings(_, _)
PrelimString(c) ==
    IF ~IsPrelim(cell[c]) THEN StoreString(nodes, cell[c].node)
    ELSE IF cell[c].kind \in {"xtext", "text"} THEN cell[c].text
    ELSE PrelimStrings(cell[c].children, 1)
PrelimStrings(cs, k) ==
    IF k > Len(cs) THEN <<>>
    ELSE PrelimString(cs[k]) \o PrelimStrings(cs, k + 1)

\* xml_elem.rs YXmlElement::to_string (xml_text.rs YXmlText::to_string is the
\* same code over the buffered String): a buffered tree that holds itself is
\* walked without end, until the stack overflows.
ToStringOf(op, h, topt) ==
    /\ ~crashed
    /\ UNCHANGED <<docs, held, io>>
    /\ cell' = cell
    /\ IF IsPrelim(cell[h])
       THEN IF Cyclic(h)
            THEN /\ last' = Call(op, "Overflow")
                 /\ crashed' = TRUE
                 /\ UNCHANGED <<txn, open, nodes, dirty, bound>>
            ELSE LocalVal(op, [NoVal EXCEPT !.s = PrelimString(h)])
       ELSE \E o \in Outcomes(h, topt,
                  [NoEffect("Ok") EXCEPT !.val.s = StoreString(nodes, cell[h].node)]) :
               Finish(op, o)

\* xml_elem.rs YXmlElement::to_string
ElemToString(h, topt) == ToStringOf("elem.to_string", h, topt)

\* xml_text.rs YXmlText::to_string
XmlTextToString(h, topt) == ToStringOf("xtext.to_string", h, topt)

\* xml_text.rs YXmlText::to_delta: the chunks of a live text only
XmlTextToDelta(h, topt) ==
    /\ ~crashed
    /\ UNCHANGED <<docs, held, io>>
    /\ cell' = cell
    /\ IF IsPrelim(cell[h])
       THEN Local("xtext.to_delta", "InvalidPrelimOp")
       ELSE \E o \in Outcomes(h, topt,
                  [NoEffect("Ok") EXCEPT !.val.s = nodes[cell[h].node].text]) :
               Finish("xtext.to_delta", o)

\* ---------------------------------------------------------------- navigation

\* the live parent branch of n and n's place among its children, if any
PlaceOf(n) ==
    {pi \in N \X (1..MaxNodes) :
        /\ ~nodes[pi[1]].deleted
        /\ pi[2] \in DOMAIN nodes[pi[1]].children
        /\ nodes[pi[1]].children[pi[2]] = n}

\* engine siblings().next_back(): the live branch before n, 0 if none
PrevOf(n) ==
    IF PlaceOf(n) = {} THEN 0
    ELSE LET pi == CHOOSE q \in PlaceOf(n) : TRUE
         IN  IF pi[2] > 1 THEN nodes[pi[1]].children[pi[2] - 1] ELSE 0

\* engine parent(): the branch that holds n, 0 if none
ParentOf(n) ==
    IF PlaceOf(n) = {} THEN 0 ELSE (CHOOSE q \in PlaceOf(n) : TRUE)[1]

\* the navigation calls: InvalidPrelimOp on a buffered value, from_xml of the
\* branch found on a live one
Navigate(op, h, to, topt) ==
    /\ ~crashed
    /\ UNCHANGED <<docs, held, io>>
    /\ IF IsPrelim(cell[h])
       THEN /\ cell' = cell
            /\ Local(op, "InvalidPrelimOp")
       ELSE \E o \in Outcomes(h, topt, NoEffect("Ok")) :
               /\ Finish(op, o)
               /\ IF o.ran /\ to # 0
                  THEN /\ FreeHandles # {}
                       /\ cell' = FromXml(cell, to)
                  ELSE cell' = cell

\* xml_elem.rs YXmlElement::prev_sibling
ElemPrevSibling(h, topt) ==
    Navigate("elem.prev_sibling", h,
             IF IsPrelim(cell[h]) THEN 0 ELSE PrevOf(cell[h].node), topt)

\* xml_elem.rs YXmlElement::parent
ElemParent(h, topt) ==
    Navigate("elem.parent", h,
             IF IsPrelim(cell[h]) THEN 0 ELSE ParentOf(cell[h].node), topt)

\* ---------------------------------------------------------------- xml text

\* String::drain(index..index + length) / engine remove_range
RemoveRange(s, i, len) == SubSeq(s, 1, i) \o SubSeq(s, i + len + 1, Len(s))

\* xml_text.rs YXmlText::insert; fmt: attributes is Some. insert_str panics
\* past the end of the buffered String.
XmlTextInsert(h, i, chunk, fmt, topt) ==
    /\ ~crashed
    /\ UNCHANGED <<docs, held, io>>
    /\ IF IsPrelim(cell[h])
       THEN IF fmt
            THEN /\ cell' = cell
                 /\ Local("xtext.insert", "InvalidPrelimOp")
            ELSE IF i > Len(cell[h].text)
            THEN /\ cell' = cell
                 /\ Local("xtext.insert", "Panic")
            ELSE /\ Len(cell[h].text) < MaxText
                 /\ cell' = [cell EXCEPT ![h].text = InsertAt(@, i, chunk)]
                 /\ Local("xtext.insert", "Ok")
       ELSE /\ cell' = cell
            /\ Len(nodes[cell[h].node].text) < MaxText
            /\ \E o \in Outcomes(h, topt,
                    IF i > Len(nodes[cell[h].node].text) THEN NoEffect("Panic")
                    ELSE [NoEffect("Ok") EXCEPT
                             !.ns[cell[h].node].text = InsertAt(@, i, chunk)]) :
                  Finish("xtext.insert", o)

\* xml_text.rs YXmlText::push; fmt: attributes is Some. push_str on the
\* buffered String, push or insert_with_attributes at len in the engine.
XmlTextPush(h, chunk, fmt, topt) ==
    /\ ~crashed
    /\ UNCHANGED <<docs, held, io>>
    /\ IF IsPrelim(cell[h])
       THEN IF fmt
            THEN /\ cell' = cell
                 /\ Local("xtext.push", "InvalidPrelimOp")
            ELSE /\ Len(cell[h].text) < MaxText
                 /\ cell' = [cell EXCEPT ![h].text = Append(@, chunk)]
                 /\ Local("xtext.push", "Ok")
       ELSE /\ cell' = cell
            /\ Len(nodes[cell[h].node].text) < MaxText
            /\ \E o \in Outcomes(h, topt,
                    [NoEffect("Ok") EXCEPT
                        !.ns[cell[h].node].text = Append(@, chunk)]) :
                  Finish("xtext.push", o)

\* xml_text.rs YXmlText::delete
XmlTextDelete(h, i, len, topt) ==
    /\ ~crashed
    /\ UNCHANGED <<docs, held, io>>
    /\ IF IsPrelim(cell[h])
       THEN IF i + len > Len(cell[h].text)
            THEN /\ cell' = cell
                 /\ Local("xtext.delete", "Panic")
            ELSE /\ cell' = [cell EXCEPT ![h].text = RemoveRange(@, i, len)]
                 /\ Local("xtext.delete", "Ok")
       ELSE /\ cell' = cell
            /\ \E o \in Outcomes(h, topt,
                    IF i + len > Len(nodes[cell[h].node].text) THEN NoEffect("Panic")
                    ELSE [NoEffect("Ok") EXCEPT
                             !.ns[cell[h].node].text = RemoveRange(@, i, len)]) :
                  Finish("xtext.delete", o)

\* xml_text.rs YXmlText::format; fmt: attributes is Some. None is refused
\* before the variant is looked at; formatting changes no character.
XmlTextFormat(h, i, len, fmt, topt) ==
    /\ ~crashed
    /\ UNCHANGED <<docs, held, io>>
    /\ cell' = cell
    /\ IF ~fmt
       THEN Local("xtext.format", "InvalidFmt")
       ELSE IF IsPrelim(cell[h])
       THEN Local("xtext.format", "InvalidPrelimOp")
       ELSE \E o \in Outcomes(h, topt, NoEffect("Ok")) : Finish("xtext.format", o)

\* ---------------------------------------------------------------- root texts

\* the root-level text branch registered under name, if any
RootOf(name) == {n \in N : nodes[n].kind = "text" /\ nodes[n].name = name}

\* doc.rs YDoc::get_text: the engine's get_or_insert_text takes the
\* document's slot itself, with no error to return when it is taken (it
\* panics, or waits for the slot, by the engine's version), then
\* YText::new over SharedCollection::integrated of the root branch.
GetText(name) ==
    /\ ~crashed
    /\ UNCHANGED <<docs, held, io>>
    /\ IF open # {}
       THEN \E r \in {"Panic", "Hang"} :
               /\ last' = Call("doc.get_text", r)
               /\ crashed' = (r = "Hang")
               /\ UNCHANGED <<txn, open, cell, nodes, dirty, bound>>
       ELSE /\ FreeHandles # {}
            /\ RootOf(name) # {} \/ FreeNodes(nodes) # {}
            /\ LET n == IF RootOf(name) # {} THEN CHOOSE r \in RootOf(name) : TRUE
                        ELSE Alloc(nodes)
               IN  /\ nodes' = IF RootOf(name) # {} THEN nodes
                                ELSE [nodes EXCEPT ![n] =
                                        [FreshNode("text") EXCEPT !.name = name]]
                   /\ cell' = [cell EXCEPT ![NewHandle] = IntegratedCell("text", n)]
            /\ dirty' = FALSE
            /\ last' = [Call("doc.get_text", "Ok") EXCEPT !.peak = 1]
            /\ UNCHANGED <<txn, open, bound, crashed>>

\* text.rs YText::length
TextLength(h, topt) ==
    /\ ~crashed
    /\ UNCHANGED <<docs, held, io>>
    /\ cell' = cell
    /\ IF IsPrelim(cell[h])
       THEN LocalVal("text.length", [NoVal EXCEPT !.n = Len(cell[h].text)])
       ELSE \E o \in Outcomes(h, topt,
                  [NoEffect("Ok") EXCEPT !.val.n = Len(nodes[cell[h].node].text)]) :
               Finish("text.length", o)

\* text.rs YText::get_text
TextGetText(h, topt) ==
    /\ ~crashed
    /\ UNCHANGED <<docs, held, io>>
    /\ cell' = cell
    /\ IF IsPrelim(cell[h])
       THEN LocalVal("text.get_text", [NoVal EXCEPT !.s = cell[h].text])
       ELSE \E o \in Outcomes(h, topt,
                  [NoEffect("Ok") EXCEPT !.val.s = nodes[cell[h].node].text]) :
               Finish("text.get_text", o)

\* text.rs YText::delete
TextDelete(h, i, len, topt) ==
    /\ ~crashed
    /\ UNCHANGED <<docs, held, io>>
    /\ IF IsPrelim(cell[h])
       THEN IF i + len > Len(cell[h].text)
            THEN /\ cell' = cell
                 /\ Local("text.delete", "Panic")
            ELSE /\ cell' = [cell EXCEPT ![h].text = RemoveRange(@, i, len)]
                 /\ Local("text.delete", "Ok")
       ELSE /\ cell' = cell
            /\ \E o \in Outcomes(h, topt,
                    IF i + len > Len(nodes[cell[h].node].text) THEN NoEffect("Panic")
                    ELSE [NoEffect("Ok") EXCEPT
                             !.ns[cell[h].node].text = RemoveRange(@, i, len)]) :
                  Finish("text.delete", o)

\* ---------------------------------------------------------------- updates

Diffs == {"bad", "empty"}              \* Vec<u8> arguments of apply_v1

\* transaction.rs YTransaction::apply_v1 -> try_apply: decode, then
\* borrow_mut().apply_update on the wrapped TransactionMut, with no look at
\* the committed flag.
ApplyV1(t, diff) ==
    /\ ~crashed
    /\ UNCHANGED <<docs, held, io>>
    /\ txn[t].st = "live"
    /\ cell' = cell
    /\ IF diff = "bad"
       THEN Local("apply_v1", "InvalidData")
       ELSE IF ~txn[t].committed
       THEN Local("apply_v1", "Ok")
       ELSE \E r \in {"Ok", "Abort"} :
               /\ last' = [Call("apply_v1", r) EXCEPT !.uaf = TRUE]
               /\ crashed' = (r = "Abort")
               /\ UNCHANGED <<txn, open, nodes, dirty, bound>>

\* ---------------------------------------------------------------- next

\* The transaction manager: the slot, commit and drop, with the collection
\* calls and updates that are handed a transaction.
Next ==
    \/ \E o \in Origins : Transaction(o)
    \/ \E t \in T : Commit(t)
    \/ \E t \in T : DropTxn(t)
    \/ \E s \in Texts, a \in InitAttrs : NewXmlText(s, a)
    \/ \E h \in HandlesOf("frag"), c \in XmlHandles, t \in TxnArgs : FragPush(h, c, t)
    \/ \E h \in HandlesOf("frag"), i \in 0..MaxKids, t \in TxnArgs : FragDelete(h, i, t)
    \/ \E h \in HandlesOf("frag"), t \in TxnArgs : FragFirstChild(h, t)
    \/ \E t \in T, d \in Diffs : ApplyV1(t, d)

Spec == Init /\ [][Next]_vars

\* The XML trees: constructors, child insertion and deletion, navigation and
\* embeds, with and without a transaction.
NextTree ==
    \/ Transaction("none")
    \/ \E t \in T : DropTxn(t)
    \/ \E a \in InitAttrs, cs \in KidSeqs : NewElement(a, cs)
    \/ \E cs \in KidSeqs : NewFragment(cs)
    \/ \E s \in Texts, a \in InitAttrs : NewXmlText(s, a)
    \/ \E h \in HandlesOf("elem"), i \in 0..MaxKids, c \in XmlHandles, t \in TxnArgs :
          ElemInsert(h, i, c, t)
    \/ \E h \in HandlesOf("elem"), c \in XmlHandles, t \in TxnArgs : ElemPush(h, c, t)
    \/ \E h \in HandlesOf("frag"), i \in 0..MaxKids, c \in XmlHandles, t \in TxnArgs :
          FragInsert(h, i, c, t)
    \/ \E h \in HandlesOf("frag"), c \in XmlHandles, t \in TxnArgs : FragPush(h, c, t)
    \/ \E h \in HandlesOf("elem"), i \in 0..MaxKids, t \in TxnArgs : ElemDelete(h, i, t)
    \/ \E h \in HandlesOf("frag"), i \in 0..MaxKids, t \in TxnArgs : FragDelete(h, i, t)
    \/ \E h \in HandlesOf("elem"), t \in TxnArgs : ElemFirstChild(h, t)
    \/ \E h \in HandlesOf("frag"), t \in TxnArgs : FragFirstChild(h, t)
    \/ \E h \in HandlesOf("elem"), t \in TxnArgs : ElemNextSibling(h, t)
    \/ \E h \in HandlesOf("xtext"), c \in XmlHandles, t \in TxnArgs :
          XmlTextInsertEmbed(h, c, t)
    \/ \E h \in XmlHandles, t \in T : Alive(h, t)

SpecTree == Init /\ [][NextTree]_vars

\* The attributes of XML nodes, written through Prelim and Integrated handles.
NextAttr ==
    \/ Transaction("none")
    \/ \E t \in T : DropTxn(t)
    \/ \E a \in InitAttrs : NewElement(a, <<>>)
    \/ \E s \in Texts, a \in InitAttrs : NewXmlText(s, a)
    \/ \E h \in HandlesOf("frag"), c \in XmlHandles, t \in TxnArgs : FragPush(h, c, t)
    \/ \E h \in HandlesOf("frag"), t \in TxnArgs : FragFirstChild(h, t)
    \/ \E h \in HandlesOf("elem"), k \in Keys, v \in Vals, t \in TxnArgs :
          ElemSetAttribute(h, k, v, t)
    \/ \E h \in HandlesOf("elem"), k \in Keys, t \in TxnArgs :
          ElemRemoveAttribute(h, k, t)
    \/ \E h \in HandlesOf("xtext"), k \in Keys, v \in Vals, t \in TxnArgs :
          XmlTextSetAttribute(h, k, v, t)
    \/ \E h \in HandlesOf("xtext"), i \in 0..MaxText, n \in 0..MaxText,
          f \in BOOLEAN, t \in TxnArgs :
          XmlTextFormat(h, i, n, f, t)

SpecAttr == Init /\ [][NextAttr]_vars

\* The values that stay in their buffers: every call made without a
\* transaction, on Prelim values next to the Integrated root.
NextPrelim ==
    \/ \E a \in InitAttrs, cs \in KidSeqs : NewElement(a, cs)
    \/ \E cs \in KidSeqs : NewFragment(cs)
    \/ \E s \in Texts, a \in InitAttrs : NewXmlText(s, a)
    \/ \E s \in Texts : NewText(s)
    \/ \E h \in HandlesOf("elem"), i \in 0..MaxKids, c \in XmlHandles :
          ElemInsert(h, i, c, 0)
    \/ \E h \in HandlesOf("elem"), c \in XmlHandles : ElemPush(h, c, 0)
    \/ \E h \in HandlesOf("frag"), c \in XmlHandles : FragPush(h, c, 0)
    \/ \E h \in HandlesOf("elem"), i \in 0..MaxKids : ElemDelete(h, i, 0)
    \/ \E h \in HandlesOf("elem") : ElemNextSibling(h, 0)
    \/ \E h \in HandlesOf("elem"), k \in Keys, v \in Vals :
          ElemSetAttribute(h, k, v, 0)
    \/ \E h \in HandlesOf("elem"), k \in Keys : ElemRemoveAttribute(h, k, 0)
    \/ \E h \in HandlesOf("text"), i \in 0..MaxText, a \in AttrArgs :
          TextInsert(h, i, "i", a, 0)
    \/ \E h \in HandlesOf("text"), a \in AttrArgs \ {"none"} : TextFormat(h, a, 0)

SpecPrelim == Init /\ [][NextPrelim]_vars

\* The calls with a local meaning and the calls that need the live document,
\* on buffered and on live XML values, while transactions come and go.
NextLocal ==
    \/ Transaction("none")
    \/ \E a \in InitAttrs, cs \in KidSeqs : NewElement(a, cs)
    \/ \E s \in Texts, a \in InitAttrs : NewXmlText(s, a)
    \/ \E h \in HandlesOf("frag"), c \in XmlHandles : FragPush(h, c, 0)
    \/ \E h \in HandlesOf("elem"), i \in 0..MaxKids, c \in XmlHandles :
          ElemInsert(h, i, c, 0)
    \/ \E h \in HandlesOf("elem"), c \in XmlHandles : ElemPush(h, c, 0)
    \/ \E h \in HandlesOf("elem"), i \in 0..MaxKids : ElemDelete(h, i, 0)
    \/ \E h \in HandlesOf("elem") : ElemFirstChild(h, 0)
    \/ \E h \in HandlesOf("elem") : ElemLength(h, 0)
    \/ \E h \in HandlesOf("elem") : ElemToString(h, 0)
    \/ \E h \in HandlesOf("elem") : ElemNextSibling(h, 0)
    \/ \E h \in HandlesOf("elem") : ElemPrevSibling(h, 0)
    \/ \E h \in HandlesOf("elem") : ElemParent(h, 0)
    \/ \E h \in HandlesOf("elem"), k \in Keys, v \in Vals :
          ElemSetAttribute(h, k, v, 0)
    \/ \E h \in HandlesOf("elem"), k \in Keys :
          ElemRemoveAttribute(h, k, 0)
    \/ \E h \in HandlesOf("elem"), k \in Keys :
          ElemGetAttribute(h, k, 0)
    \/ \E h \in HandlesOf("xtext"), i \in 0..MaxText, f \in BOOLEAN :
          XmlTextInsert(h, i, "h", f, 0)
    \/ \E h \in HandlesOf("xtext"), i \in 0..MaxText, n \in 1..MaxText :
          XmlTextDelete(h, i, n, 0)
    \/ \E h \in HandlesOf("xtext") : XmlTextToString(h, 0)
    \/ \E h \in HandlesOf("xtext") : XmlTextToDelta(h, 0)
    \/ \E h \in HandlesOf("xtext"), c \in XmlHandles : XmlTextInsertEmbed(h, c, 0)

SpecLocal == Init /\ [][NextLocal]_vars

\* The root texts of the document: get_text, and reads and writes of the
\* text with the caller's transaction and without one.
\* The reading calls, with and without a caller's transaction, on XML nodes
\* and root texts that transactions fill.
NextRead ==
    \/ Transaction("none")
    \/ \E t \in T : DropTxn(t)
    \/ \E a \in InitAttrs : NewElement(a, <<>>)
    \/ \E h \in HandlesOf("frag"), c \in XmlHandles, t \in TxnArgs : FragPush(h, c, t)
    \/ \E h \in HandlesOf("elem"), k \in Keys, v \in Vals, t \in TxnArgs :
          ElemSetAttribute(h, k, v, t)
    \/ GetText("t")
    \/ \E h \in HandlesOf("text"), t \in TxnArgs : TextInsert(h, 0, "h", "none", t)
    \/ \E h \in HandlesOf("frag"), t \in TxnArgs : FragFirstChild(h, t)
    \/ \E h \in HandlesOf("elem"), t \in TxnArgs : ElemFirstChild(h, t)
    \/ \E h \in HandlesOf("elem"), t \in TxnArgs : ElemNextSibling(h, t)
    \/ \E h \in HandlesOf("elem"), t \in TxnArgs : ElemPrevSibling(h, t)
    \/ \E h \in HandlesOf("elem"), t \in TxnArgs : ElemParent(h, t)
    \/ \E h \in HandlesOf("elem"), t \in TxnArgs : ElemLength(h, t)
    \/ \E h \in HandlesOf("elem"), t \in TxnArgs : ElemName(h, t)
    \/ \E h \in HandlesOf("elem"), k \in Keys, t \in TxnArgs : ElemGetAttribute(h, k, t)
    \/ \E h \in HandlesOf("elem"), t \in TxnArgs : ElemAttributes(h, t)
    \/ \E h \in HandlesOf("elem"), t \in TxnArgs : ElemToString(h, t)
    \/ \E h \in XmlHandles, t \in T : Alive(h, t)
    \/ \E h \in HandlesOf("text"), t \in TxnArgs : TextLength(h, t)
    \/ \E h \in HandlesOf("text"), t \in TxnArgs : TextGetText(h, t)

SpecRead == Init /\ [][NextRead]_vars

\* ---------------------------------------------------------------- snapshots
\* doc.0.transact(): the engine call that takes the slot and hands back no
\* error; with the slot held it panics or waits, depending on the engine build.
Transact(op) ==
    /\ open # {}
    /\ \E r \in {"Panic", "Hang"} :
          /\ last' = Call(op, r)
          /\ crashed' = (r = "Hang")
    /\ UNCHANGED <<txn, open, cell, nodes, dirty, bound>>

EncodeStateVector ==
    /\ ~crashed
    /\ UNCHANGED <<docs, held, io>>
    /\ last' = Call("encode_state_vector", IF open # {} THEN "AnotherRwTx" ELSE "Ok")
    /\ UNCHANGED <<txn, open, cell, nodes, dirty, bound, crashed>>

Snapshot ==
    /\ ~crashed
    /\ UNCHANGED <<docs, held, io>>
    /\ IF open # {}
       THEN Transact("snapshot")
       ELSE /\ last' = Call("snapshot", "Ok")
            /\ UNCHANGED <<txn, open, cell, nodes, dirty, bound, crashed>>

\* v: the encoding; fits: whether the engine can encode the document's state
\* at the given snapshot
EncodeStateFromSnapshot(v, fits) ==
    /\ ~crashed
    /\ UNCHANGED <<docs, held, io>>
    /\ IF open # {}
       THEN Transact("encode_state_from_snapshot_" \o v)
       ELSE /\ last' = Call("encode_state_from_snapshot_" \o v,
                            IF fits THEN "Ok" ELSE "InvalidData")
            /\ UNCHANGED <<txn, open, cell, nodes, dirty, bound, crashed>>

NextText ==
    \/ Transaction("none")
    \/ \E t \in T : Commit(t)
    \/ \E t \in T : DropTxn(t)
    \/ \E name \in Names : GetText(name)
    \/ \E h \in HandlesOf("text"), i \in 0..MaxText, ch \in {"h", "i"}, t \in TxnArgs :
          TextInsert(h, i, ch, "none", t)
    \/ \E h \in HandlesOf("text"), i \in 0..MaxText, t \in TxnArgs :
          TextDelete(h, i, 1, t)
    \/ \E h \in HandlesOf("text"), t \in TxnArgs : TextLength(h, t)
    \/ \E h \in HandlesOf("text"), t \in TxnArgs : TextGetText(h, t)
    \/ EncodeStateVector
    \/ Snapshot
    \/ \E v \in {"v1", "v2"}, fits \in BOOLEAN : EncodeStateFromSnapshot(v, fits)

SpecText == Init /\ [][NextText]_vars

\* A buffered YText next to root texts of the document: the same calls on
\* both, each in a transaction of its own.
NextTexts ==
    \/ \E s \in {<<>>} \cup Texts : NewText(s)
    \/ \E name \in Names : GetText(name)
    \/ \E h \in HandlesOf("text"), i \in 0..MaxText, ch \in {"h", "i"}, a \in AttrArgs :
          TextInsert(h, i, ch, a, 0)
    \/ \E h \in HandlesOf("text"), ch \in {"h", "i"}, a \in AttrArgs :
          TextPush(h, ch, a, 0)
    \/ \E h \in HandlesOf("text"), i \in 0..MaxText, n \in 1..MaxText :
          TextDelete(h, i, n, 0)
    \/ \E h \in HandlesOf("text") : TextLength(h, 0)
    \/ \E h \in HandlesOf("text") : TextGetText(h, 0)

SpecTexts == Init /\ [][NextTexts]_vars

\* Texts and XML texts, buffered and live, written with and without
\* attributes while a transaction may hold the document.
NextFmt ==
    \/ Transaction("none")
    \/ \E t \in T : DropTxn(t)
    \/ \E s \in Texts : NewText(s)
    \/ \E s \in Texts, a \in InitAttrs : NewXmlText(s, a)
    \/ \E name \in {"t"} : GetText(name)
    \/ \E h \in HandlesOf("frag"), c \in XmlHandles : FragPush(h, c, 0)
    \/ \E h \in HandlesOf("text"), i \in 0..MaxText, a \in AttrArgs, t \in TxnArgs :
          TextInsert(h, i, "i", a, t)
    \/ \E h \in HandlesOf("text"), a \in AttrArgs, t \in TxnArgs :
          TextPush(h, "i", a, t)
    \/ \E h \in HandlesOf("xtext"), i \in 0..MaxText, f \in BOOLEAN, t \in TxnArgs :
          XmlTextInsert(h, i, "i", f, t)
    \/ \E h \in HandlesOf("xtext"), f \in BOOLEAN, t \in TxnArgs :
          XmlTextPush(h, "i", f, t)

SpecFmt == Init /\ [][NextFmt]_vars

\* ---------------------------------------------------------------- replicas
\* The store of a replica is told by the number of blocks it holds of each
\* client, blocks of one client being integrated in clock order.

\* engine state_vector().encode_v1() / encode_v2(): the bytes of d's vector
StateVectorBytes(d, v) == [enc |-> v, at |-> docs[d].have, of |-> d]

\* StateVector::decode_v1 / decode_v2 of bytes b: bytes of the other encoding
\* do not parse
DecodeStateVector(b, v) ==
    IF b.enc = v THEN [err |-> "", at |-> b.at] ELSE [err |-> "InvalidData", at |-> NoClock]

\* Variant of EncodeDiff: the blocks after the vector's clock, the block at
\* that clock left out.
EncodeDiffAfter(d, from, v, sv, by) ==
    [enc |-> v,
     from |-> [c \in Docs |-> IF from[c] + 1 < docs[d].have[c] THEN from[c] + 1
                               ELSE docs[d].have[c]],
     to |-> docs[d].have, src |-> d, sv |-> sv, by |-> by, orphan |-> FALSE]

\* engine encode_state_as_update_v1/v2 and encode_diff_v1: the blocks of d
\* with a clock at or after the vector from, in encoding v
EncodeDiff(d, from, v, sv, by) ==
    [enc |-> v,
     from |-> [c \in Docs |-> IF from[c] < docs[d].have[c] THEN from[c]
                               ELSE docs[d].have[c]],
     to |-> docs[d].have, src |-> d, sv |-> sv, by |-> by, orphan |-> FALSE]

\* an update whose block names a parent the receiver cannot resolve
Orphan(v) == [NoUpd EXCEPT !.enc = v, !.orphan = TRUE, !.by = "crafted"]

\* the updates a caller can hand to an apply call
Updates == {u \in {held.upd, Orphan("v1"), Orphan("v2")} : u.enc # "none"}

\* engine apply_update: the blocks that continue what the store holds are
\* integrated, the others wait
Integrate(have, u) ==
    [c \in Docs |-> IF u.from[c] <= have[c] /\ u.to[c] > have[c] THEN u.to[c]
                     ELSE have[c]]

\* doc.rs YDoc::transaction on replica d
PeerTransaction(d) ==
    /\ ~crashed
    /\ IF docs[d].tx
       THEN /\ last' = Call("transaction", "AnotherRwTx")
            /\ docs' = docs
       ELSE /\ last' = Call("transaction", "Ok")
            /\ docs' = [docs EXCEPT ![d].tx = TRUE]
    /\ UNCHANGED <<txn, open, cell, nodes, dirty, bound, crashed, held, io>>

\* transaction.rs YTransaction::commit on the open transaction of replica d
PeerCommit(d) ==
    /\ ~crashed
    /\ docs[d].tx
    /\ docs' = [docs EXCEPT ![d].tx = FALSE, ![d].before = NoClock]
    /\ last' = Call("commit", "Ok")
    /\ UNCHANGED <<txn, open, cell, nodes, dirty, bound, crashed, held, io>>

\* a write on replica d (text.rs YText::insert), under its open transaction
\* or one of its own: one more block of client d
PeerInsert(d) ==
    /\ ~crashed
    /\ docs[d].have[d] < (IF d = "D" THEN MaxClock ELSE MaxOwn)
    /\ docs' = [docs EXCEPT ![d].have[d] = @ + 1]
    /\ last' = Call("text.insert", "Ok")
    /\ UNCHANGED <<txn, open, cell, nodes, dirty, bound, crashed, held, io>>

\* snapshots.rs encode_state_vector (v1) / encode_state_vector2 (v2)
EncodeStateVectorOf(d, v) ==
    /\ ~crashed
    /\ IF docs[d].tx
       THEN /\ last' = Call("encode_state_vector_" \o v, "AnotherRwTx")
            /\ held' = held
       ELSE /\ last' = Call("encode_state_vector_" \o v, "Ok")
            /\ held' = [held EXCEPT !.sv = StateVectorBytes(d, v)]
    /\ UNCHANGED <<txn, open, cell, nodes, dirty, bound, crashed, docs, io>>

\* transaction.rs YTransaction::state_vector_v1 / state_vector_v2
StateVector(d, v) ==
    /\ ~crashed
    /\ docs[d].tx
    /\ last' = Call("state_vector_" \o v, "Ok")
    /\ held' = [held EXCEPT !.sv = StateVectorBytes(d, v)]
    /\ UNCHANGED <<txn, open, cell, nodes, dirty, bound, crashed, docs, io>>

\* Variant of EncodeStateAsUpdate: the diff is taken against the
\* document's own state vector when none is given.
EncodeStateAsUpdateOwn(d, v, dec) ==
    /\ ~crashed
    /\ dec # "none" => held.sv.enc # "none"
    /\ LET op == "encode_state_as_update_" \o v
           sv == IF dec = "none" THEN [err |-> "", at |-> docs[d].have]
                 ELSE DecodeStateVector(held.sv, dec)
       IN  IF sv.err # ""
           THEN /\ last' = Call(op, sv.err)
                /\ held' = held
           ELSE IF docs[d].tx
           THEN /\ last' = Call(op, "AnotherRwTx")
                /\ held' = held
           ELSE /\ last' = Call(op, "Ok")
                /\ held' = [held EXCEPT !.upd =
                               EncodeDiff(d, sv.at, v,
                                          IF dec = "none" THEN "none" ELSE held.sv.of,
                                          op)]
    /\ UNCHANGED <<txn, open, cell, nodes, dirty, bound, crashed, docs, io>>

\* snapshots.rs decode_state_vector / decode_state_vector2 of the held bytes
\* (dec names the decoder, "none" is the call without bytes), then
\* encode_state_as_update (v1) / encode_state_as_update_v2 (v2) of replica d
EncodeStateAsUpdate(d, v, dec) ==
    /\ ~crashed
    /\ dec # "none" => held.sv.enc # "none"
    /\ LET op == "encode_state_as_update_" \o v
           sv == IF dec = "none" THEN [err |-> "", at |-> NoClock]
                 ELSE DecodeStateVector(held.sv, dec)
       IN  IF sv.err # ""
           THEN /\ last' = Call(op, sv.err)
                /\ held' = held
           ELSE IF docs[d].tx
           THEN /\ last' = Call(op, "AnotherRwTx")
                /\ held' = held
           ELSE /\ last' = Call(op, "Ok")
                /\ held' = [held EXCEPT !.upd =
                               EncodeDiff(d, sv.at, v,
                                          IF dec = "none" THEN "none" ELSE held.sv.of,
                                          op)]
    /\ UNCHANGED <<txn, open, cell, nodes, dirty, bound, crashed, docs, io>>

\* snapshots.rs apply_update (v1) / apply_update_v2 (v2): every error of the
\* engine's apply_update is returned as InvalidData
ApplyUpdate(d, v, u) ==
    /\ ~crashed
    /\ LET op == "apply_update_" \o v
       IN  IF docs[d].tx
           THEN /\ last' = Call(op, "AnotherRwTx")
                /\ docs' = docs
           ELSE IF u.enc # v
           THEN /\ last' = Call(op, "InvalidData")
                /\ docs' = docs
           ELSE IF u.orphan
           THEN /\ last' = Call(op, "InvalidData")
                /\ docs' = docs
           ELSE /\ last' = Call(op, "Ok")
                /\ docs' = [docs EXCEPT ![d].have = Integrate(@, u)]
    /\ UNCHANGED <<txn, open, cell, nodes, dirty, bound, crashed, held, io>>

\* transaction.rs YTransaction::diff_v1 / diff_v2 on the open transaction of
\* replica d: both decode the vector with decode_v1 and both answer
\* encode_diff_v1
Diff(d, v) ==
    /\ ~crashed
    /\ docs[d].tx
    /\ held.sv.enc # "none"
    /\ LET sv == DecodeStateVector(held.sv, "v1")
       IN  IF sv.err # ""
           THEN /\ last' = Call("diff_" \o v, sv.err)
                /\ held' = held
           ELSE /\ last' = Call("diff_" \o v, "Ok")
                /\ held' = [held EXCEPT !.upd =
                               EncodeDiff(d, sv.at, "v1", held.sv.of, "diff_" \o v)]
    /\ UNCHANGED <<txn, open, cell, nodes, dirty, bound, crashed, docs, io>>

\* transaction.rs YTransaction::apply_v1 / apply_v2 -> try_apply on the open
\* transaction of replica d
Apply(d, v, u) ==
    /\ ~crashed
    /\ docs[d].tx
    /\ IF u.enc # v
       THEN /\ last' = Call("apply_" \o v, "InvalidData")
            /\ docs' = docs
       ELSE IF u.orphan
       THEN /\ last' = Call("apply_" \o v, "InvalidParent")
            /\ docs' = docs
       ELSE /\ last' = Call("apply_" \o v, "Ok")
            /\ docs' = [docs EXCEPT ![d].have = Integrate(@, u)]
    /\ UNCHANGED <<txn, open, cell, nodes, dirty, bound, crashed, held, io>>

\* doc.rs YDoc::transaction on replica d, with what the engine's
\* try_transact_mut keeps in the new TransactionMut: before_state, the
\* document's state vector at that moment
TryTransactMut(d) ==
    /\ ~crashed
    /\ IF docs[d].tx
       THEN /\ last' = Call("transaction", "AnotherRwTx")
            /\ docs' = docs
       ELSE /\ last' = Call("transaction", "Ok")
            /\ docs' = [docs EXCEPT ![d].tx = TRUE, ![d].before = docs[d].have]
    /\ UNCHANGED <<txn, open, cell, nodes, dirty, bound, crashed, held, io>>

\* transaction.rs YTransaction::before_state on the open transaction of
\* replica d: the engine's before_state, the state vector taken by
\* TransactionMut::new, as a map
BeforeState(d) ==
    /\ ~crashed
    /\ docs[d].tx
    /\ last' = Call("before_state", "Ok")
    /\ held' = [held EXCEPT !.sv = [enc |-> "map", at |-> docs[d].before, of |-> d]]
    /\ UNCHANGED <<txn, open, cell, nodes, dirty, bound, crashed, docs, io>>

\* transaction.rs YTransaction::after_state on the open transaction of
\* replica d: the engine's after_state field as a map. TransactionMut::new
\* sets the field to the empty vector and only the engine commit fills it
\* in, so an open transaction answers the empty map.
AfterState(d) ==
    /\ ~crashed
    /\ docs[d].tx
    /\ last' = Call("after_state", "Ok")
    /\ held' = [held EXCEPT !.sv = [enc |-> "map", at |-> NoClock, of |-> d]]
    /\ UNCHANGED <<txn, open, cell, nodes, dirty, bound, crashed, docs, io>>

Encodings == {"v1", "v2"}

\* Two replicas that write and exchange v1 state vectors and updates of
\* both encodings.
NextSync ==
    \/ \E d \in Docs : PeerTransaction(d)
    \/ \E d \in Docs : PeerCommit(d)
    \/ \E d \in Docs : PeerInsert(d)
    \/ \E d \in Docs : EncodeStateVectorOf(d, "v1")
    \/ \E d \in Docs : StateVector(d, "v1")
    \/ \E d \in Docs, v \in Encodings, dec \in {"v1", "none"} :
          EncodeStateAsUpdate(d, v, dec)
    \/ \E d \in Docs, v \in Encodings, u \in Updates : ApplyUpdate(d, v, u)
    \/ \E d \in Docs, v \in Encodings : Diff(d, v)
    \/ \E d \in Docs, v \in Encodings, u \in Updates : Apply(d, v, u)

SpecSync == Init /\ [][NextSync]_vars

\* One replica read through its transaction while it writes and takes in
\* the other's updates.
NextClock ==
    \/ \E d \in Docs : TryTransactMut(d)
    \/ \E d \in Docs : PeerCommit(d)
    \/ \E d \in Docs : PeerInsert(d)
    \/ \E d \in Docs : BeforeState(d)
    \/ \E d \in Docs : AfterState(d)
    \/ \E d \in Docs, v \in Encodings : EncodeStateAsUpdate(d, v, "none")
    \/ \E d \in Docs, v \in Encodings, u \in Updates : Apply(d, v, u)

SpecClock == Init /\ [][NextClock]_vars

\* ---------------------------------------------------------------- values
\* A JSON text is a sequence of tokens: the brackets, ":" and ",", the
\* string literals "k", "j", "s", the number 1, true and null.

JsonKeys == {"k", "j"}
JsonStrings == JsonKeys \cup {"s"}

\* the leaves and small containers values are built from
Leaves == {ANull, ABool(TRUE), ANumber(1), AString("s"), AArray(<<>>),
           AArray(<<ANumber(1)>>), AMap(<<>>), AMap([k \in {"k"} |-> ANull])}

\* the JSON values handed over as text: the leaves and the maps over them
JsonValues ==
    Leaves \cup {AMap(m) : m \in UNION {[K -> Leaves] : K \in SUBSET JsonKeys}}

\* the orders in which a text can list the keys of ks
KeyOrders(ks) ==
    {o \in UNION {[1..n -> ks] : n \in {Cardinality(ks)}} :
        \A i, j \in DOMAIN o : i # j => o[i] # o[j]}

\* the text of value v, the members of a map listed in an order of orders
RECURSIVE Json(_), JsonItems(_, _), JsonMembers(_, _, _)
Json(v) ==
    CASE v.t = "Null" -> <<"null">>
      [] v.t = "Bool" -> <<"true">>
      [] v.t = "Number" -> <<"1">>
      [] v.t = "String" -> <<v.s>>
      [] v.t = "Array" -> <<"[">> \o JsonItems(v.a, 1) \o <<"]">>
      [] v.t = "Map" ->
            <<"{">> \o JsonMembers(v.m, CHOOSE o \in KeyOrders(DOMAIN v.m) : TRUE, 1)
                  \o <<"}">>
JsonItems(a, i) ==
    IF i > Len(a) THEN <<>>
    ELSE (IF i > 1 THEN <<",">> ELSE <<>>) \o Json(a[i]) \o JsonItems(a, i + 1)
JsonMembers(m, o, i) ==
    IF i > Len(o) THEN <<>>
    ELSE (IF i > 1 THEN <<",">> ELSE <<>>) \o <<o[i], ":">> \o Json(m[o[i]])
            \o JsonMembers(m, o, i + 1)

\* the text of the map v with its keys in the order o
JsonIn(v, o) == <<"{">> \o JsonMembers(v.m, o, 1) \o <<"}">>

Bad(i) == [ok |-> FALSE, v |-> ANull, at |-> i]

\* engine Any::from_json, a descent over the tokens of s from place i: the
\* value read and the place after it
RECURSIVE ReadValue(_, _), ReadItems(_, _, _), ReadMembers(_, _, _)
ReadValue(s, i) ==
    IF i > Len(s) THEN Bad(i)
    ELSE CASE s[i] = "null" -> [ok |-> TRUE, v |-> ANull, at |-> i + 1]
           [] s[i] = "true" -> [ok |-> TRUE, v |-> ABool(TRUE), at |-> i + 1]
           [] s[i] = "1" -> [ok |-> TRUE, v |-> ANumber(1), at |-> i + 1]
           [] s[i] \in JsonStrings -> [ok |-> TRUE, v |-> AString(s[i]), at |-> i + 1]
           [] s[i] = "[" ->
                 IF i + 1 <= Len(s) /\ s[i + 1] = "]"
                 THEN [ok |-> TRUE, v |-> AArray(<<>>), at |-> i + 2]
                 ELSE ReadItems(s, i + 1, <<>>)
           [] s[i] = "{" ->
                 IF i + 1 <= Len(s) /\ s[i + 1] = "}"
                 THEN [ok |-> TRUE, v |-> AMap(<<>>), at |-> i + 2]
                 ELSE ReadMembers(s, i + 1, <<>>)
           [] OTHER -> Bad(i)
ReadItems(s, i, acc) ==
    LET x == ReadValue(s, i)
    IN  IF ~x.ok \/ x.at > Len(s) THEN Bad(i)
        ELSE IF s[x.at] = "]"
        THEN [ok |-> TRUE, v |-> AArray(Append(acc, x.v)), at |-> x.at + 1]
        ELSE IF s[x.at] = ","
        THEN ReadItems(s, x.at + 1, Append(acc, x.v))
        ELSE Bad(i)
ReadMembers(s, i, acc) ==
    IF i + 1 > Len(s) THEN Bad(i)
    ELSE IF s[i] \notin JsonStrings \/ s[i + 1] # ":" THEN Bad(i)
    ELSE LET x == ReadValue(s, i + 2)
             put == [k \in DOMAIN acc \cup {s[i]} |->
                        IF k = s[i] THEN x.v ELSE acc[k]]
         IN  IF ~x.ok \/ x.at > Len(s) THEN Bad(i)
             ELSE IF s[x.at] = "}"
             THEN [ok |-> TRUE, v |-> AMap(put), at |-> x.at + 1]
             ELSE IF s[x.at] = ","
             THEN ReadMembers(s, x.at + 1, put)
             ELSE Bad(i)

\* Any::from_json(&str): the whole text is one value, or an error
FromJson(s) ==
    LET x == ReadValue(s, 1)
    IN  IF x.ok /\ x.at = Len(s) + 1 THEN x ELSE Bad(1)

\* Variant of MapAttrs: an array passes as a map without entries.
MapAttrsLenient(any) ==
    IF any.t = "Map" THEN [some |-> TRUE, map |-> any.m]
    ELSE IF any.t = "Array" THEN [some |-> TRUE, map |-> <<>>]
    ELSE [some |-> FALSE, map |-> <<>>]

\* attrs.rs map_attrs: the entries of an Any::Map, None for any other value
MapAttrs(any) ==
    IF any.t = "Map" THEN [some |-> TRUE, map |-> any.m]
    ELSE [some |-> FALSE, map |-> <<>>]

\* attrs.rs parse_attrs(attributes): given tells Some from None
ParseAttrsOf(given, text) ==
    IF ~given THEN [err |-> "", some |-> FALSE, map |-> <<>>]
    ELSE LET parsed == FromJson(text)
         IN  IF ~parsed.ok THEN [err |-> "InvalidFmt", some |-> FALSE, map |-> <<>>]
             ELSE LET attrs == MapAttrs(parsed.v)
                  IN  IF attrs.some
                      THEN [err |-> "", some |-> TRUE, map |-> attrs.map]
                      ELSE [err |-> "InvalidFmt", some |-> FALSE, map |-> <<>>]

\* the texts made of the value v: its JSON in each order of keys, and that
\* JSON cut short or with a token too many
TextsOf(v) ==
    LET whole == IF v.t = "Map" THEN {JsonIn(v, o) : o \in KeyOrders(DOMAIN v.m)}
                 ELSE {Json(v)}
    IN  [good |-> whole,
         bad |-> UNION {{SubSeq(w, 1, n) : n \in 0..(Len(w) - 1)}
                        \cup {w \o <<"}">>, w \o <<",">>} : w \in whole}]

\* the calls of parse_attrs to make: None, the text of a value, or a
\* damaged text
ParseAttrsArgs ==
    {[NoIo EXCEPT !.fn = "parse_attrs(None)", !.done = FALSE]}
    \cup UNION {{[NoIo EXCEPT !.fn = "parse_attrs(json)", !.done = FALSE,
                              !.src = v, !.given = TRUE, !.text = w] :
                    w \in TextsOf(v).good}
                 \cup {[NoIo EXCEPT !.fn = "parse_attrs(damaged)", !.done = FALSE,
                                    !.src = v, !.given = TRUE, !.text = w] :
                         w \in TextsOf(v).bad} : v \in JsonValues}

\* the call of parse_attrs on the argument drawn
ParseAttrsCall ==
    /\ ~crashed
    /\ ~io.done
    /\ io.fn \in {"parse_attrs(None)", "parse_attrs(json)", "parse_attrs(damaged)"}
    /\ LET r == ParseAttrsOf(io.given, io.text)
       IN  /\ io' = [io EXCEPT !.done = TRUE, !.some = r.some, !.err = r.err,
                               !.out = AMap(r.map)]
           /\ last' = Call("parse_attrs", IF r.err = "" THEN "Ok" ELSE r.err)
    /\ UNCHANGED <<txn, open, cell, nodes, dirty, bound, crashed, docs, held>>

RECURSIVE IntoYValueBigIntAsNumber(_), IntoYValue(_), FromYValue(_)

\* Variant of IntoYValue: a BigInt comes out as a Number.
IntoYValueBigIntAsNumber(v) ==
    CASE v.t = "Undefined" -> ANull
      [] v.t = "BigInt" -> ANumber(v.n)
      [] v.t = "Array" ->
            AArray([i \in DOMAIN v.a |-> IntoYValueBigIntAsNumber(v.a[i])])
      [] v.t = "Map" ->
            [ANull EXCEPT !.t = "AttrMap",
                          !.m = [k \in DOMAIN v.m |-> IntoYValueBigIntAsNumber(v.m[k])]]
      [] OTHER -> v

\* attrs.rs into_yvalue (with into_yattrs2 for the maps): Any -> YValue
IntoYValue(v) ==
    CASE v.t = "Undefined" -> ANull
      [] v.t = "Array" -> AArray([i \in DOMAIN v.a |-> IntoYValue(v.a[i])])
      [] v.t = "Map" ->
            [ANull EXCEPT !.t = "AttrMap",
                          !.m = [k \in DOMAIN v.m |-> IntoYValue(v.m[k])]]
      [] OTHER -> v

\* attrs.rs from_yvalue: YValue -> Any
FromYValue(v) ==
    CASE v.t = "Array" -> AArray([i \in DOMAIN v.a |-> FromYValue(v.a[i])])
      [] v.t = "AttrMap" -> AMap([k \in DOMAIN v.m |-> FromYValue(v.m[k])])
      [] OTHER -> v

\* YValue::AttrMap
YAttrMap(m) == [ANull EXCEPT !.t = "AttrMap", !.m = m]

\* the containers of depth one over the items S, with mk making a map
Containers(S, mk(_)) ==
    {AArray(<<>>)} \cup {AArray(<<x>>) : x \in S}
    \cup {AArray(<<x, y>>) : x \in S, y \in S}
    \cup {mk(m) : m \in UNION {[K -> S] : K \in SUBSET JsonKeys}}

\* the engine values converted: scalars of every variant, and containers of
\* scalars and of containers that hold an Undefined
AnyLeaves ==
    {ANull, AUndefined, ABool(TRUE), ABool(FALSE), ANumber(1), ABigInt(2),
     AString("s"), ABuffer(<<1>>)}
AnyValues ==
    AnyLeaves \cup Containers(AnyLeaves \cup {AArray(<<AUndefined>>),
                                               AMap([k \in {"k"} |-> AUndefined])}, AMap)

\* the boundary values converted
YLeaves == AnyLeaves \ {AUndefined}
YValues ==
    YLeaves \cup Containers(YLeaves \cup {AArray(<<ANull>>),
                                          YAttrMap([k \in {"k"} |-> ABigInt(2)])}, YAttrMap)

\* the round trips to make
ConvertArgs ==
    {[NoIo EXCEPT !.fn = "into_yvalue(from_yvalue)", !.done = FALSE, !.src = v] :
        v \in YValues}
    \cup {[NoIo EXCEPT !.fn = "from_yvalue(into_yvalue)", !.done = FALSE, !.src = a] :
            a \in AnyValues}

\* into_yvalue(&from_yvalue(&v)) of the boundary value drawn
IntoFromCall ==
    /\ ~crashed
    /\ ~io.done
    /\ io.fn = "into_yvalue(from_yvalue)"
    /\ io' = [io EXCEPT !.done = TRUE, !.out = IntoYValue(FromYValue(io.src))]
    /\ last' = Call("into_yvalue", "Ok")
    /\ UNCHANGED <<txn, open, cell, nodes, dirty, bound, crashed, docs, held>>

\* from_yvalue(&into_yvalue(&a)) of the engine value drawn
FromIntoCall ==
    /\ ~crashed
    /\ ~io.done
    /\ io.fn = "from_yvalue(into_yvalue)"
    /\ io' = [io EXCEPT !.done = TRUE, !.out = FromYValue(IntoYValue(io.src))]
    /\ last' = Call("from_yvalue", "Ok")
    /\ UNCHANGED <<txn, open, cell, nodes, dirty, bound, crashed, docs, held>>

\* the state before a conversion call: the argument is drawn
InitValue ==
    /\ txn = [t \in T |-> NoTxn]
    /\ open = {}
    /\ cell = [h \in H |-> IF h = 1 THEN RootCell ELSE NoCell]
    /\ nodes = [n \in N |-> IF n = 1 THEN FreshNode("frag") ELSE NoNode]
    /\ dirty = FALSE
    /\ bound = {}
    /\ last = [op |-> "new", res |-> "Ok", uaf |-> FALSE, peak |-> 0,
               log |-> <<>>, val |-> NoVal]
    /\ crashed = FALSE
    /\ docs = [d \in Docs |-> [have |-> NoClock, tx |-> FALSE, before |-> NoClock]]
    /\ held = [sv |-> NoSv, upd |-> NoUpd]
    /\ io \in ParseAttrsArgs \cup ConvertArgs

\* The conversions of attribute strings and values, each applied once to
\* the argument drawn.
NextValue ==
    \/ ParseAttrsCall
    \/ IntoFromCall
    \/ FromIntoCall

SpecValue == InitValue /\ [][NextValue]_vars

NextTxn ==
    \/ \E o \in Origins : Transaction(o)
    \/ \E t \in T : Commit(t)
    \/ \E t \in T : DropTxn(t)
    \/ \E t \in T : Origin(t)
    \/ \E s \in Texts, a \in InitAttrs : NewXmlText(s, a)
    \/ \E h \in HandlesOf("frag"), c \in XmlHandles, t \in TxnArgs : FragPush(h, c, t)

SpecTxn == Init /\ [][NextTxn]_vars

\* ---------------------------------------------------------------- properties

\* C1: at every moment at most one mutable transaction, explicit or implicit,
\* is open on the document, and YDoc.transaction called while one is open
\* returns AnotherRwTx and opens nothing.
C1_OneMutableTransaction ==
    [][/\ Cardinality(open') <= 1
       /\ last'.peak <= 1
       /\ \A o \in Origins :
             (open # {} /\ Transaction(o))
                => (last'.res = "AnotherRwTx" /\ UNCHANGED <<txn, open>>)]_vars

\* a begin was refused while a transaction held the slot
C1_Refused ==
    /\ last.op = "transaction"
    /\ last.res = "AnotherRwTx"
    /\ Cardinality(open) = 1

\* C2: once every transaction begun on the document has been committed, by
\* commit() or by being dropped, the next YDoc.transaction succeeds and holds
\* the slot; the cycle can repeat without end.
C2_BeginAfterCommit ==
    [][\A o \in Origins :
          (Transaction(o) /\ \A t \in T : txn[t].st = "live" => txn[t].committed)
             => (last'.res = "Ok" /\ Cardinality(open') = 1)]_vars

\* a begin succeeded while the caller still held an explicitly committed
\* transaction
C2_BegunAgain ==
    /\ last.op = "transaction"
    /\ last.res = "Ok"
    /\ \E t \in T : txn[t].st = "live" /\ txn[t].committed

\* C3: the first commit() of a transaction publishes the pending changes,
\* releases the slot and sets committed; every later commit() returns
\* TxnCommitted and changes neither the document nor the transaction.
C3_CommitOnce ==
    [][\A t \in T :
          Commit(t) =>
             IF ~txn[t].committed
             THEN /\ last'.res = "Ok"
                  /\ txn'[t].committed
                  /\ ~dirty'
                  /\ t \notin open'
             ELSE /\ last'.res = "TxnCommitted"
                  /\ UNCHANGED <<txn, open, cell, nodes, dirty>>]_vars

\* a second commit was refused
C3_SecondCommitRefused ==
    /\ last.op = "commit"
    /\ last.res = "TxnCommitted"
    /\ \E t \in T : txn[t].st = "live" /\ txn[t].committed

\* C4: a collection call or an update that is handed a committed transaction
\* leaves the document's content as it was and does not touch the engine
\* transaction that the commit released.
C4_CommittedTransactionInert ==
    [][\A t \in T :
          (/\ txn[t].st = "live"
           /\ txn[t].committed
           /\ \/ \E h \in HandlesOf("frag"), c \in XmlHandles : FragPush(h, c, t)
              \/ \E h \in HandlesOf("frag"), i \in 0..MaxKids : FragDelete(h, i, t)
              \/ \E d \in Diffs : ApplyV1(t, d))
             => (nodes' = nodes /\ ~last'.uaf)]_vars

\* a push handed a committed transaction went through and changed the document
C4_PushedThroughCommitted ==
    /\ last.op = "frag.push"
    /\ last.res = "Ok"
    /\ last.uaf
    /\ nodes[1].children # <<>>

\* C5: a transaction dropped without a commit() is committed by the drop: the
\* pending changes are published and the slot is free, and the slot is never
\* held by a transaction that is committed or gone.
C5_DropCommits ==
    [][/\ \A t \in T :
             (DropTxn(t) /\ ~txn[t].committed) => (t \notin open' /\ ~dirty')
       /\ \A t \in open' : txn'[t].st = "live" /\ ~txn'[t].committed]_vars

\* an open transaction with pending changes was dropped, and the slot is free
C5_DroppedOpen ==
    /\ last.op = "drop"
    /\ last.peak = 1
    /\ open = {}
    /\ ~dirty
    /\ nodes[1].children # <<>>

\* the handles whose value has been integrated at least once
BoundHandles == {p[1] : p \in bound}

\* branch n of store ns is the copy of the buffered tree of handle c: the same
\* kind, text and children, in the buffered order
RECURSIVE Mirrors(_, _, _)
Mirrors(ns, n, c) ==
    /\ ns[n].kind = cell[c].kind
    /\ ns[n].text = cell[c].text
    /\ Len(ns[n].children) = Len(cell[c].children)
    /\ \A k \in DOMAIN cell[c].children :
          Mirrors(ns, ns[n].children[k], cell[c].children[k])

\* C6: when a Prelim tree is inserted or pushed into an Integrated parent
\* under an open transaction, then right after the call, before any commit,
\* the caller's handle of the value and of every descendant is Integrated, and
\* the parent's children hold the whole subtree in the buffered order.
C6_InsertedTreeIntegrated ==
    [][\A h \in XmlHandles, c \in XmlHandles, t \in LiveTxns, i \in 0..MaxNodes :
          (/\ ~IsPrelim(cell[h])
           /\ IsPrelim(cell[c])
           /\ ~txn[t].committed
           /\ \/ ElemInsert(h, i, c, t)
              \/ FragInsert(h, i, c, t)
              \/ (i = LenOf(h) /\ (ElemPush(h, c, t) \/ FragPush(h, c, t)))
           /\ last'.res = "Ok")
             => (/\ \A d \in Subtree(c) : ~IsPrelim(cell'[d])
                 /\ Mirrors(nodes', nodes'[cell[h].node].children[i + 1], c))]_vars

\* a nested Prelim tree went into the document under a transaction that is
\* still open
C6_TreeInsertedUnderTxn ==
    /\ last.op \in {"elem.insert", "elem.push", "frag.insert", "frag.push"}
    /\ last.res = "Ok"
    /\ open # {}
    /\ dirty
    /\ \E n \in N : nodes[n].kind \in {"elem", "frag"} /\ n # 1
                     /\ nodes[n].children # <<>>

\* C7: after a value has been integrated, an attribute written through the
\* handle the caller held before the integration lands on the live branch of
\* the document.
C7_OldHandleWritesLive ==
    [][\A p \in bound, k \in Keys, v \in Vals, t \in TxnArgs :
          (/\ \/ ElemSetAttribute(p[1], k, v, t)
              \/ XmlTextSetAttribute(p[1], k, v, t)
           /\ last'.res = "Ok")
             => nodes'[p[2]].attrs[k] = v]_vars

\* an attribute written through the old handle of an integrated value stayed
\* in the buffer
C7_WriteStayedInBuffer ==
    /\ last.op \in {"elem.set_attribute", "xtext.set_attribute"}
    /\ last.res = "Ok"
    /\ \E p \in bound :
          /\ cell[p[1]].attrs["class"] = "a"
          /\ nodes[p[2]].attrs["class"] = Absent

\* C8: a handle that is Integrated stays Integrated whatever follows: the
\* deletion of its branch, commits, failed calls.
C8_IntegratedForGood ==
    [][\A h \in H : cell[h].st = "integrated" => cell'[h].st = "integrated"]_vars

\* a call through an Integrated handle found its branch deleted
C8_DeletedStillIntegrated ==
    /\ last.res = "RefDisposed"
    /\ \E h \in H : cell[h].st = "integrated" /\ Disposed(h)

\* C9: a Prelim value that has not been integrated stays Prelim through every
\* local call, failed navigation or format call, and insertion into another
\* Prelim parent.
C9_PrelimStaysPrelim ==
    [][\A h \in H :
          (IsPrelim(cell[h]) /\ h \notin BoundHandles') => IsPrelim(cell'[h])]_vars

\* a Prelim value sits in another Prelim parent, has had an attribute set, and
\* an integration-only call on a Prelim value has just been refused
C9_BufferedAndRefused ==
    /\ last.res = "InvalidPrelimOp"
    /\ \E h \in H, p \in H :
          /\ IsPrelim(cell[h]) /\ IsPrelim(cell[p])
          /\ h \notin BoundHandles
          /\ h \in Kids({p})
          /\ cell[h].attrs["class"] = "a"

\* C10: at every entry point that takes a child, an Integrated child is
\* refused with NotPrelim and nothing changes: the constructors of element
\* and fragment, insert and push on both, insert_embed of XML text.
C10_IntegratedChildRefused ==
    [][\A c \in XmlHandles :
          ~IsPrelim(cell[c]) =>
             \A h \in XmlHandles, i \in 0..MaxNodes, t \in TxnArgs :
                (\/ \E a \in InitAttrs : NewElement(a, <<c>>)
                 \/ NewFragment(<<c>>)
                 \/ ElemInsert(h, i, c, t) \/ ElemPush(h, c, t)
                 \/ FragInsert(h, i, c, t) \/ FragPush(h, c, t)
                 \/ (cell[h].kind = "xtext" /\ XmlTextInsertEmbed(h, c, t)))
                   => (last'.res = "NotPrelim" /\ UNCHANGED <<cell, nodes>>)]_vars

\* an Integrated value was embedded into a live XML text and got a second
\* branch
C10_EmbeddedIntegrated ==
    /\ last.op = "xtext.insert_embed"
    /\ last.res = "Ok"
    /\ \E p \in bound : ~IsPrelim(cell[p[1]])
C12_SubtreeInOneTransaction ==
    [][(last'.op \in {"elem.insert", "elem.push", "frag.insert", "frag.push"}
        /\ last'.res = "Ok") =>
          \A c \in XmlHandles :
             IsPrelim(cell[c]) =>
                \A h \in XmlHandles :
                   ~IsPrelim(cell[h]) =>
                      \A t \in TxnArgs, i \in 0..MaxNodes :
                         (\/ last'.op = "elem.insert" /\ ElemInsert(h, i, c, t)
                          \/ last'.op = "frag.insert" /\ FragInsert(h, i, c, t)
                          \/ /\ i = LenOf(h)
                             /\ \/ last'.op = "elem.push" /\ ElemPush(h, c, t)
                                \/ last'.op = "frag.push" /\ FragPush(h, c, t))
                            => /\ last'.peak = 1
                               /\ Mirrors(nodes', nodes'[cell[h].node].children[i + 1], c)
                               /\ IF t = 0
                                  THEN ~dirty' /\ open' = {}
                                  ELSE dirty' /\ open' = {t}]_vars

\* an element with its text child sits in the store, unpublished, under the
\* caller's open transaction
C12_SubtreePending ==
    /\ last.op = "frag.push"
    /\ last.res = "Ok"
    /\ dirty
    /\ open # {}
    /\ \E n \in N \ {1} :
          /\ nodes[n].kind = "elem"
          /\ Len(nodes[n].children) = 1
          /\ nodes[nodes[n].children[1]].kind = "xtext"
          /\ nodes[nodes[n].children[1]].text = <<"h">>
\* C13: while a Prelim element is integrated, each of its buffered attributes
\* is written onto the live node before any of its buffered children is
\* appended to that node.
C13_AttributesBeforeChildren ==
    \A i, j \in DOMAIN last.log :
        (/\ last.log[i].ev = "node"
         /\ last.log[j].ev = "attr"
         /\ last.log[j].n = last.log[i].p) => j < i

\* an element that buffered an attribute and a child has been integrated
C13_ElementWithBothIntegrated ==
    /\ last.op = "frag.push"
    /\ last.res = "Ok"
    /\ \E i, j \in DOMAIN last.log :
          /\ last.log[i].ev = "node"
          /\ last.log[j].ev = "attr"
          /\ last.log[j].n = last.log[i].p
          /\ nodes[last.log[j].n].attrs["class"] = "a"
          /\ nodes[last.log[j].n].children = <<last.log[i].n>>
\* C14: at every step of the walk over a value's buffered children and
\* attributes, the handle of that value already reports prelim() = false.
C14_HandleIntegratedDuringWalk ==
    \A i \in DOMAIN last.log :
        last.log[i].by # 0 => ~last.log[i].prelim

\* a buffered child was appended and a buffered attribute written while the
\* handle of their owner was still Prelim, and it is Prelim after the call
C14_WalkedWhilePrelim ==
    /\ last.op = "frag.push"
    /\ last.res = "Ok"
    /\ \E i, j \in DOMAIN last.log :
          /\ last.log[i].ev = "node"
          /\ last.log[j].ev = "attr"
          /\ last.log[i].by = last.log[j].by
          /\ last.log[i].by # 0
          /\ last.log[i].prelim
          /\ last.log[j].prelim
          /\ IsPrelim(cell[last.log[i].by])

\* the call just made ended with res, without a transaction of its own and
\* without a change to the slot or the store
C15_InMemory(res) ==
    /\ last'.res = res
    /\ last'.peak = Cardinality(open)
    /\ UNCHANGED <<txn, open, nodes, dirty, bound>>

\* a call with a local meaning was made on the handle h, with arguments that
\* fit its buffer: a Prelim child, an index or range inside the buffer, no
\* formatting attributes, and for to_string a tree that does not hold itself
C15_LocalCall(h) ==
    \/ /\ last'.op = "elem.insert"
       /\ \E i \in 0..MaxKids, c \in XmlHandles :
             /\ IsPrelim(cell[c])
             /\ i <= Len(cell[h].children)
             /\ ElemInsert(h, i, c, 0)
             /\ cell'[h].children = InsertAt(cell[h].children, i, c)
    \/ /\ last'.op = "elem.push"
       /\ \E c \in XmlHandles :
             /\ IsPrelim(cell[c])
             /\ ElemPush(h, c, 0)
    \/ /\ last'.op = "elem.delete"
       /\ \E i \in 0..MaxKids : i < Len(cell[h].children) /\ ElemDelete(h, i, 0)
    \/ last'.op = "elem.first_child" /\ ElemFirstChild(h, 0)
    \/ last'.op = "elem.length" /\ ElemLength(h, 0)
    \/ last'.op = "elem.to_string" /\ ~Cyclic(h) /\ ElemToString(h, 0)
    \/ /\ last'.op = "elem.set_attribute"
       /\ \E k \in Keys, v \in Vals : ElemSetAttribute(h, k, v, 0)
    \/ /\ last'.op = "elem.remove_attribute"
       /\ \E k \in Keys : ElemRemoveAttribute(h, k, 0)
    \/ /\ last'.op = "elem.get_attribute"
       /\ \E k \in Keys : ElemGetAttribute(h, k, 0)
    \/ /\ last'.op = "xtext.insert"
       /\ \E i \in 0..MaxText :
             i <= Len(cell[h].text) /\ XmlTextInsert(h, i, "h", FALSE, 0)
    \/ /\ last'.op = "xtext.delete"
       /\ \E i \in 0..MaxText, n \in 1..MaxText :
             i + n <= Len(cell[h].text) /\ XmlTextDelete(h, i, n, 0)
    \/ last'.op = "xtext.to_string" /\ XmlTextToString(h, 0)

\* a call that needs the live document was made on the handle h
C15_LiveCall(h) ==
    \/ last'.op = "elem.next_sibling" /\ ElemNextSibling(h, 0)
    \/ last'.op = "elem.prev_sibling" /\ ElemPrevSibling(h, 0)
    \/ last'.op = "elem.parent" /\ ElemParent(h, 0)
    \/ last'.op = "xtext.to_delta" /\ XmlTextToDelta(h, 0)
    \/ /\ last'.op = "xtext.insert_embed"
       /\ \E c \in XmlHandles : XmlTextInsertEmbed(h, c, 0)

\* C15: on a Prelim value every call with a local meaning succeeds in memory
\* without a transaction, also while a transaction is open on the document;
\* every call that needs the live document fails with InvalidPrelimOp and
\* leaves the buffered payload as it was.
C15_LocalOpsOnPrelim ==
    [][\A h \in XmlHandles :
          IsPrelim(cell[h]) =>
             /\ C15_LocalCall(h) => C15_InMemory("Ok")
             /\ C15_LiveCall(h) =>
                   C15_InMemory("InvalidPrelimOp") /\ cell' = cell]_vars

\* with a transaction open, a child was buffered and then a sibling was asked
\* for in vain
C15_BufferedUnderOpenTransaction ==
    /\ open # {}
    /\ last.op = "elem.next_sibling"
    /\ last.res = "InvalidPrelimOp"
    /\ \E h \in HandlesOf("elem") :
          /\ IsPrelim(cell[h])
          /\ cell[h].children # <<>>
          /\ cell[h].attrs["class"] = "a"
          /\ \A g \in HandlesOf("elem") : g = h

\* C16: format on a Prelim XML text fails with InvalidPrelimOp whatever its
\* arguments are, attributes = None included, and leaves the buffered text
\* and attributes as they were.
C16_FormatRefusedOnPrelim ==
    [][last'.op = "xtext.format" =>
          \A h \in HandlesOf("xtext") :
             IsPrelim(cell[h]) =>
                \A i \in 0..MaxText, n \in 0..MaxText, f \in BOOLEAN, t \in TxnArgs :
                   XmlTextFormat(h, i, n, f, t) =>
                      last'.res = "InvalidPrelimOp" /\ cell' = cell]_vars

\* format without attributes was refused as malformed while every XML text
\* was Prelim
C16_RefusedAsInvalidFmt ==
    /\ last.op = "xtext.format"
    /\ last.res = "InvalidFmt"
    /\ HandlesOf("xtext") # {}
    /\ \A h \in HandlesOf("xtext") : IsPrelim(cell[h]) /\ cell[h].text = <<"h">>
\* C17: format with a valid attribute object on a Prelim plain text is allowed
\* locally: it succeeds, without a transaction, instead of failing with
\* InvalidPrelimOp.
C17_FormatAllowedOnPrelimText ==
    [][last'.op = "text.format" =>
          \A h \in HandlesOf("text") :
             (IsPrelim(cell[h]) /\ TextFormat(h, "{}", 0)) =>
                 /\ last'.res = "Ok"
                 /\ last'.peak = 0
                 /\ UNCHANGED <<txn, open, nodes>>]_vars

\* format with an attribute object was refused on a buffered plain text
C17_FormatRefusedOnPrelimText ==
    /\ last.op = "text.format"
    /\ last.res = "InvalidPrelimOp"
    /\ \E h \in HandlesOf("text") : IsPrelim(cell[h]) /\ cell[h].text # <<>>
\* C17 as amended: format on a Prelim plain text fails, without a transaction
\* and with the buffer unchanged: with InvalidPrelimOp when the attributes
\* parse to an object, with InvalidFmt when they do not.
C17_FormatNeedsIntegratedText ==
    [][last'.op = "text.format" =>
          \A h \in HandlesOf("text"), a \in AttrArgs \ {"none"} :
             (IsPrelim(cell[h]) /\ TextFormat(h, a, 0)) =>
                 /\ last'.res = IF a = "{}" THEN "InvalidPrelimOp" ELSE "InvalidFmt"
                 /\ last'.peak = 0
                 /\ cell' = cell
                 /\ UNCHANGED <<txn, open, nodes>>]_vars
\* the call just made was made on the handle h, with transaction argument t
\* and, where the call takes them, the child c and the index i
C18_CallOn(h, t, c, i) ==
    \/ last'.op = "elem.insert" /\ cell[h].kind = "elem" /\ ElemInsert(h, i, c, t)
    \/ last'.op = "elem.push" /\ cell[h].kind = "elem" /\ ElemPush(h, c, t)
    \/ last'.op = "elem.delete" /\ cell[h].kind = "elem" /\ ElemDelete(h, i, t)
    \/ last'.op = "elem.first_child" /\ cell[h].kind = "elem" /\ ElemFirstChild(h, t)
    \/ last'.op = "elem.next_sibling" /\ cell[h].kind = "elem" /\ ElemNextSibling(h, t)
    \/ last'.op = "frag.insert" /\ cell[h].kind = "frag" /\ FragInsert(h, i, c, t)
    \/ last'.op = "frag.push" /\ cell[h].kind = "frag" /\ FragPush(h, c, t)
    \/ last'.op = "frag.delete" /\ cell[h].kind = "frag" /\ FragDelete(h, i, t)
    \/ last'.op = "frag.first_child" /\ cell[h].kind = "frag" /\ FragFirstChild(h, t)
    \/ /\ last'.op = "xtext.insert_embed"
       /\ cell[h].kind = "xtext"
       /\ XmlTextInsertEmbed(h, c, t)

C20_CallOn(h, t, c, i) ==
    \/ last'.op = "frag.push" /\ FragPush(h, c, t)
    \/ last'.op = "frag.delete" /\ FragDelete(h, i, t)
    \/ last'.op = "frag.first_child" /\ FragFirstChild(h, t)

C21_CallOfB(h) ==
    \/ last'.op = "text.length" /\ TextLength(h, 0)
    \/ last'.op = "text.get_text" /\ TextGetText(h, 0)
    \/ /\ last'.op = "text.insert"
       /\ \E i \in 0..MaxText, ch \in {"h", "i"} :
             i <= Len(nodes[cell[h].node].text) /\ TextInsert(h, i, ch, "none", 0)
    \/ /\ last'.op = "text.delete"
       /\ \E i \in 0..MaxText :
             i < Len(nodes[cell[h].node].text) /\ TextDelete(h, i, 1, 0)

\* C21: while a caller holds an open transaction, every call of another
\* caller on an Integrated value that passes no transaction, a read as well
\* as a write, returns a busy error at once and changes neither the document
\* nor the open transaction; once that transaction is committed the slot is
\* free and the same call succeeds.
C21_BusyWhileHeld ==
    [][/\ last'.op \in {"text.length", "text.get_text", "text.insert", "text.delete"} =>
            \A h \in HandlesOf("text") :
               (~IsPrelim(cell[h]) /\ C21_CallOfB(h)) =>
                  IF open # {}
                  THEN /\ last'.res \in {"AnotherTx", "AnotherRwTx"}
                       /\ UNCHANGED <<nodes, txn, open, dirty, cell, crashed>>
                  ELSE last'.res = "Ok" /\ open' = {}
       /\ last'.op = "commit" =>
            \A t \in T : (Commit(t) /\ last'.res = "Ok") => open' = {}]_vars

\* a read without a transaction was refused while a transaction with pending
\* text was open
C21_ReadRefusedWhileHeld ==
    /\ last.op = "text.get_text"
    /\ last.res = "AnotherTx"
    /\ open # {}
    /\ dirty
    /\ \E n \in N : nodes[n].text # <<>>
\* C22: every exposed operation that needs the document reports contention
\* as a returned typed error and neither panics nor blocks; snapshot,
\* encode_state_from_snapshot_v1/v2 and YDoc.get_text are among them.
C22_ContentionIsReturned ==
    last.op \in {"snapshot", "encode_state_from_snapshot_v1",
                 "encode_state_from_snapshot_v2", "doc.get_text",
                 "encode_state_vector"}
        => last.res \notin {"Panic", "Hang"}

\* snapshot was called while a transaction was open
C22_SnapshotWhileOpen ==
    last.op = "snapshot" /\ open # {}
ReadOps ==
    {"elem.length", "elem.name", "elem.get_attribute", "elem.attributes",
     "elem.to_string", "elem.first_child", "frag.first_child",
     "elem.next_sibling", "elem.prev_sibling", "elem.parent", "alive",
     "text.length", "text.get_text"}

\* C23: the read-only operations (length, get_text, to_string, name,
\* get_attribute, attributes, first_child, next_sibling, prev_sibling, parent,
\* alive) never change the engine store: the document's content is the same
\* after the call as before, nothing is left pending, and no transaction
\* stays open or is closed by the call, whether the caller supplied a
\* transaction or not.
C23_ReadsLeaveStore ==
    [][last'.op \in ReadOps =>
          /\ nodes' = nodes
          /\ dirty' = dirty
          /\ open' = open
          /\ txn' = txn
          /\ bound' = bound]_vars

\* an attribute written under a transaction was read back under that
\* transaction, before it was committed
C23_ReadUnderCallerTxn ==
    /\ last.op = "elem.get_attribute"
    /\ last.res = "Ok"
    /\ last.val.a # Absent
    /\ open # {}
    /\ dirty
\* C24: YDoc.get_text(name) always returns a handle that is not preliminary
\* and is bound to the root called name, which it creates if missing; two
\* calls with one name, whatever happened in between, give handles on the
\* same node.
C24_GetTextAlwaysSameRoot ==
    /\ last.op = "doc.get_text" => last.res = "Ok"
    /\ \A h \in HandlesOf("text") :
          ~IsPrelim(cell[h]) /\ nodes[cell[h].node].name \in Names
    /\ \A h1, h2 \in HandlesOf("text") :
          nodes[cell[h1].node].name = nodes[cell[h2].node].name
             => cell[h1].node = cell[h2].node

\* two handles of one name stand on one node whose text was just read
C24_TwoHandlesOneRoot ==
    \E h1, h2 \in HandlesOf("text") :
       /\ h1 # h2
       /\ cell[h1].node = cell[h2].node
       /\ last.op = "text.get_text"
       /\ last.res = "Ok"
       /\ last.val.s = nodes[cell[h1].node].text
       /\ last.val.s # <<>>
\* C25: on a root text, insert(0, s) without attributes inside a
\* transaction T1 puts s in front of the text; the commit of T1 keeps the
\* text and frees the slot, so that a transaction T2 can be opened; inside T2
\* length is the number of characters of the text and get_text is the text.
C25_InsertCommitRead ==
    [][/\ last'.op = "text.insert" =>
            \A h \in HandlesOf("text"), t \in open, ch \in {"h", "i"} :
               TextInsert(h, 0, ch, "none", t) =>
                  /\ last'.res = "Ok"
                  /\ nodes'[cell[h].node].text = <<ch>> \o nodes[cell[h].node].text
       /\ last'.op = "commit" =>
            \A t \in open : Commit(t) =>
               /\ last'.res = "Ok"
               /\ nodes' = nodes
               /\ open' = {}
       /\ (last'.op = "transaction" /\ open = {}) =>
            (last'.res = "Ok" /\ open' # {})
       /\ last'.op = "text.length" =>
            \A h \in HandlesOf("text"), t \in open :
               TextLength(h, t) =>
                  /\ last'.res = "Ok"
                  /\ last'.val.n = Len(nodes[cell[h].node].text)
       /\ last'.op = "text.get_text" =>
            \A h \in HandlesOf("text"), t \in open :
               TextGetText(h, t) =>
                  /\ last'.res = "Ok"
                  /\ last'.val.s = nodes[cell[h].node].text]_vars

\* the text written under a transaction that has been committed since is
\* read under a second open transaction, which has written nothing
C25_ReadInSecondTransaction ==
    /\ last.op = "text.get_text"
    /\ last.res = "Ok"
    /\ last.val.s = <<"h">>
    /\ \E t1, t2 \in T : txn[t1].committed /\ t2 \in open
    /\ ~dirty
    /\ ~last.uaf
\* what get_attribute(k) and length() answer through the handle c in a state
\* with the handle objects cells and the store ns
C26_AttributeThrough(cells, ns, c, k) ==
    IF IsPrelim(cells[c]) THEN cells[c].attrs[k] ELSE ns[cells[c].node].attrs[k]

C26_LengthThrough(cells, ns, c) ==
    IF IsPrelim(cells[c]) THEN Len(cells[c].children)
    ELSE Len(ns[cells[c].node].children)

\* C26: after a Prelim element with attributes A and n children has been
\* inserted into an Integrated parent inside a transaction, and before that
\* transaction commits, get_attribute(k) through the element's handle
\* returns A[k], length() returns n, and no child handle is preliminary any
\* more.
C26_IntegrationKeepsContent ==
    [][last'.op \in {"elem.insert", "elem.push", "frag.insert", "frag.push"} =>
          \A h \in XmlHandles, c \in HandlesOf("elem"), t \in open, i \in 0..MaxNodes :
             (/\ ~IsPrelim(cell[h])
              /\ IsPrelim(cell[c])
              /\ \/ ElemInsert(h, i, c, t)
                 \/ FragInsert(h, i, c, t)
                 \/ (i = LenOf(h) /\ (ElemPush(h, c, t) \/ FragPush(h, c, t)))
              /\ last'.res = "Ok")
                => (/\ \A k \in Keys :
                          C26_AttributeThrough(cell', nodes', c, k) = cell[c].attrs[k]
                    /\ C26_LengthThrough(cell', nodes', c) = Len(cell[c].children)
                    /\ \A d \in Below(c) : ~IsPrelim(cell'[d]))]_vars

\* an element with a child went into the document under a transaction that
\* is still open, and the child's handle is still held
C26_ElementWithChildInserted ==
    /\ last.op \in {"frag.insert", "frag.push"}
    /\ last.res = "Ok"
    /\ open # {}
    /\ dirty
    /\ \E c \in HandlesOf("elem") :
          /\ cell[c].children # <<>>
          /\ \E n \in N : nodes[n].kind = "elem" /\ nodes[n].children # <<>>
\* the held update was made by encode_state_as_update of a replica that has
\* not changed since, and r is another replica, empty and free
C27_CloneInto(r) ==
    /\ held.upd.by = "encode_state_as_update_v1"
    /\ held.upd.src # r
    /\ held.upd.to = docs[held.upd.src].have
    /\ docs[r].have = NoClock
    /\ ~docs[r].tx
    /\ ApplyUpdate(r, "v1", held.upd)

\* C27: with sv = encode_state_vector(D) and no further change of D,
\* encode_state_as_update(D, sv) is an update that, applied to an empty
\* document, gives it D's content.
C27_OwnVectorUpdateClones ==
    [][last'.op = "apply_update_v1" =>
          \A r \in Docs :
             (held.upd.sv = held.upd.src /\ held.upd.from = held.upd.to
              /\ C27_CloneInto(r))
                => (last'.res = "Ok" /\ docs'[r].have = docs[held.upd.src].have)]_vars

\* C27 as the code has it: with sv = encode_state_vector(E) of the empty
\* document E and no further change of D, encode_state_as_update(D, sv) is an
\* update that, applied to E, gives it D's content.
C27_ReceiverVectorUpdateClones ==
    [][last'.op = "apply_update_v1" =>
          \A r \in Docs :
             (held.upd.sv = r /\ C27_CloneInto(r))
                => (last'.res = "Ok" /\ docs'[r].have = docs[held.upd.src].have)]_vars

\* the empty replica R received, from its own state vector, all that D holds
C27_EmptyReceiverCloned ==
    /\ last.op = "apply_update_v1"
    /\ last.res = "Ok"
    /\ held.upd.sv = "R"
    /\ held.upd.src = "D"
    /\ held.upd.from = NoClock
    /\ docs["R"].have = docs["D"].have
    /\ docs["D"].have["D"] = MaxClock
\* C28: encode_state_as_update(D) without a state vector gives an update
\* with all changes of D, so that apply_update of it to an empty document
\* gives that document D's content; and the update computed from the state
\* vector of a receiver R, applied to R, leaves R holding every change D had.
C28_FullAndDeltaUpdates ==
    [][/\ last'.op = "encode_state_as_update_v1" =>
            \A d \in Docs :
               (~docs[d].tx /\ EncodeStateAsUpdate(d, "v1", "none")) =>
                  /\ last'.res = "Ok"
                  /\ held'.upd.from = NoClock
                  /\ held'.upd.to = docs[d].have
       /\ last'.op = "apply_update_v1" =>
            \A r \in Docs :
               (/\ held.upd.by = "encode_state_as_update_v1"
                /\ held.upd.src # r
                /\ ~docs[r].tx
                /\ ApplyUpdate(r, "v1", held.upd))
                  => /\ (held.upd.sv = "none" /\ docs[r].have = NoClock) =>
                           (last'.res = "Ok" /\ docs'[r].have = held.upd.to)
                     /\ held.upd.sv = r =>
                           /\ last'.res = "Ok"
                           /\ \A c \in Docs : docs'[r].have[c] >= held.upd.to[c]
                           /\ \A c \in Docs : docs'[r].have[c] >= docs[r].have[c]]_vars

\* R, which held one change of D and one of its own, was brought up to D by
\* the update computed from R's state vector
C28_DeltaBroughtReceiverUp ==
    /\ last.op = "apply_update_v1"
    /\ last.res = "Ok"
    /\ held.upd.sv = "R"
    /\ held.upd.src = "D"
    /\ held.upd.from["D"] = 1
    /\ held.upd.to["D"] = MaxClock
    /\ docs["R"].have["D"] = MaxClock
    /\ docs["R"].have["R"] = MaxOwn
\* C29: the payload that remoteTxn.diff_v2(localStateVector) returns is
\* accepted by localTxn.apply_v2, without InvalidData, and brings the local
\* document up to the remote one.
C29_DiffV2AppliesV2 ==
    [][last'.op = "apply_v2" =>
          \A l \in Docs :
             (/\ held.upd.by = "diff_v2"
              /\ held.upd.sv = l
              /\ held.upd.src # l
              /\ Apply(l, "v2", held.upd))
                => /\ last'.res = "Ok"
                   /\ \A c \in Docs : docs'[l].have[c] >= held.upd.to[c]]_vars

\* the payload of the remote transaction's diff_v2 was handed to apply_v2 of
\* the local transaction, both transactions open, the remote one ahead
C29_DiffV2HandedToApplyV2 ==
    /\ last.op = "apply_v2"
    /\ held.upd.by = "diff_v2"
    /\ held.upd.sv = "R"
    /\ held.upd.src = "D"
    /\ held.upd.to["D"] > held.upd.from["D"]
    /\ docs["R"].tx
    /\ docs["D"].tx
\* C30: applying an update that names a parent the local document does not
\* know fails with InvalidParent through every apply entry point:
\* YTransaction.apply_v1 / apply_v2 and apply_update / apply_update_v2.
C30_OrphanIsInvalidParent ==
    [][last'.op \in {"apply_v1", "apply_v2", "apply_update_v1", "apply_update_v2"} =>
          \A d \in Docs, v \in Encodings :
             (\/ Apply(d, v, Orphan(v))
              \/ (~docs[d].tx /\ ApplyUpdate(d, v, Orphan(v))))
                => (last'.res = "InvalidParent" /\ docs' = docs)]_vars

\* an update with an unknown parent was refused by a transaction's apply_v2
C30_OrphanRefusedByTransaction ==
    /\ last.op = "apply_v2"
    /\ last.res = "InvalidParent"
    /\ \E d \in Docs : docs[d].tx /\ docs[d].have # NoClock
\* C31: parse_attrs(None) returns Ok(None); parse_attrs(Some(s)) returns
\* InvalidFmt when s is no valid JSON or its top-level value is no object;
\* otherwise it returns Ok(Some(map)) with exactly the keys and values of the
\* object.
C31_ParseAttrs ==
    (io.done /\ last.op = "parse_attrs") =>
        CASE io.fn = "parse_attrs(None)" -> io.err = "" /\ ~io.some
          [] io.fn = "parse_attrs(damaged)" -> io.err = "InvalidFmt" /\ ~io.some
          [] io.fn = "parse_attrs(json)" ->
                IF io.src.t = "Map"
                THEN /\ io.err = ""
                     /\ io.some
                     /\ DOMAIN io.out.m = DOMAIN io.src.m
                     /\ \A k \in DOMAIN io.src.m : io.out.m[k] = io.src.m[k]
                ELSE io.err = "InvalidFmt" /\ ~io.some

\* an object of two keys, one value an array, was parsed into its map
C31_TwoKeysParsed ==
    /\ io.done
    /\ io.fn = "parse_attrs(json)"
    /\ io.some
    /\ DOMAIN io.out.m = JsonKeys
    /\ io.text[2] = "j"
    /\ io.out.m["k"] = AArray(<<ANumber(1)>>)
\* the engine value a with every Undefined in it made Null
RECURSIVE C32_UndefinedAsNull(_)
C32_UndefinedAsNull(a) ==
    CASE a.t = "Undefined" -> ANull
      [] a.t = "Array" -> AArray([i \in DOMAIN a.a |-> C32_UndefinedAsNull(a.a[i])])
      [] a.t = "Map" -> AMap([k \in DOMAIN a.m |-> C32_UndefinedAsNull(a.m[k])])
      [] OTHER -> a

\* C32: for every value v built from Null, Bool, Number, BigInt, String,
\* Buffer, Array and Map, into_yvalue(from_yvalue(v)) equals v; for every
\* engine value a, from_yvalue(into_yvalue(a)) equals a but for Undefined,
\* which becomes Null at any depth.
C32_RoundTrips ==
    io.done =>
        /\ io.fn = "into_yvalue(from_yvalue)" => io.out = io.src
        /\ io.fn = "from_yvalue(into_yvalue)" => io.out = C32_UndefinedAsNull(io.src)

\* a map holding a BigInt next to an array with an Undefined came back with
\* the Undefined as Null and the rest as it was
C32_NestedUndefinedBecameNull ==
    /\ io.done
    /\ io.fn = "from_yvalue(into_yvalue)"
    /\ io.src = AMap([k \in JsonKeys |-> IF k = "k" THEN ABigInt(2)
                                         ELSE AArray(<<AUndefined>>)])
    /\ io.out.m["j"] = AArray(<<ANull>>)
    /\ io.out.m["k"] = ABigInt(2)
\* the results that are values of tools::Error, and Ok
C33_TypedResults ==
    {"Ok", "InvalidTransactionCtx", "RefDisposed", "TxnCommitted", "AnotherTx",
     "AnotherRwTx", "InvalidPrelimOp", "InvalidFmt", "NotPrelim", "InvalidDelta",
     "Custom", "InvalidData", "InvalidParent"}

\* C33: every boundary operation ends with a typed result and never aborts:
\* insert(index, ..) and delete(index, length) on a Preliminary value with
\* an index or range outside the buffered payload return a typed error and
\* leave the payload unchanged.
C33_TypedResultOutOfRange ==
    last.op \in {"elem.insert", "elem.delete", "text.insert"}
        => last.res \in C33_TypedResults

\* delete was called on a Preliminary element past the end of its children
C33_DeletePastEnd ==
    /\ last.op = "elem.delete"
    /\ last.res = "Panic"
    /\ \E h \in HandlesOf("elem") : IsPrelim(cell[h]) /\ cell[h].children = <<>>
C36_ReleasedOnce ==
    [][/\ \A t \in T :
             (last'.op \in {"commit", "drop"} /\ (Commit(t) \/ DropTxn(t))) =>
                /\ Cardinality(open \ open') = (IF txn[t].committed THEN 0 ELSE 1)
                /\ open' \subseteq open
                /\ t \notin open'
       /\ \A t \in T :
             (t \in open') <=> (txn'[t].st = "live" /\ ~txn'[t].committed)]_vars

\* a committed transaction was dropped while a later one held the slot
C36_DroppedAfterCommit ==
    /\ last.op = "drop"
    /\ open # {}
    /\ \E t \in T : txn[t].st = "none" /\ \A u \in open : u # t
\* C35: before_state() returns the clocks the document had when the
\* transaction began and does not change while the transaction changes the
\* document; after_state() returns the clocks at the current point, so after
\* a local insert inside the open transaction after_state exceeds
\* before_state for the local client.
C35_BeforeAndAfterState ==
    /\ last.op = "before_state" => held.sv.at = docs[held.sv.of].before
    /\ last.op = "after_state" =>
          LET d == held.sv.of
          IN  /\ held.sv.at = docs[d].have
              /\ docs[d].have[d] > docs[d].before[d]
                    => held.sv.at[d] > docs[d].before[d]

\* after_state was read after an insert inside the open transaction
C35_AfterStateAfterInsert ==
    /\ last.op = "after_state"
    /\ docs[held.sv.of].tx
    /\ docs[held.sv.of].have[held.sv.of] > docs[held.sv.of].before[held.sv.of]
\* the live branches that were built from the buffer of handle c
C37_LiveNodesOf(c) == {p[2] : p \in {q \in bound : q[1] = c /\ ~nodes[q[2]].deleted}}

\* C37: no Prelim child is integrated twice, also when it is buffered in two
\* Prelim parents that both go into the document: a child is bound to at most
\* one live node, and the later insertion ends in a typed error, not in a
\* second node or a panic.
C37_IntegratedOnce ==
    \A c \in H : Cardinality(C37_LiveNodesOf(c)) <= 1

\* one buffered child has two live branches in the document
C37_TwoBranchesOfOneChild ==
    /\ last.op \in {"elem.insert", "elem.push", "frag.insert", "frag.push"}
    /\ last.res = "Ok"
    /\ \E c \in XmlHandles :
          /\ IsPrelim(cell[c])
          /\ Cardinality(C37_LiveNodesOf(c)) = 2
\* C38: buffered trees stay acyclic and the walks over them terminate: after
\* any sequence of insert and push on Prelim elements and fragments no Prelim
\* value is its own descendant, so to_string and integration visit each
\* descendant once and return.
C38_BufferedTreesAcyclic ==
    /\ \A h \in XmlHandles : IsPrelim(cell[h]) => ~Cyclic(h)
    /\ last.res # "Overflow"

\* to_string walked a buffered element that holds itself and ran out of stack
C38_WalkOfCycleOverflowed ==
    /\ last.op = "elem.to_string"
    /\ last.res = "Overflow"
    /\ crashed
    /\ \E h \in HandlesOf("elem") : IsPrelim(cell[h]) /\ h \in Below(h)
\* the strings a text of the model can hold
C39_Strings == UNION {[1..n -> {"h", "i"}] : n \in 0..MaxText}

\* C39: a Prelim YText and an Integrated root text that start empty answer
\* get_text() and length() alike after every step of the same sequence of
\* in-range insert, push and delete calls without attributes: from equal
\* contents the same call succeeds on both or on neither, leaves equal
\* contents, and the reads give equal answers.
C39_PrelimMatchesRoot ==
    \A p, g \in HandlesOf("text") :
       (/\ IsPrelim(cell[p])
        /\ ~IsPrelim(cell[g])
        /\ cell[p].text = nodes[cell[g].node].text)
          => /\ \A s \in C39_Strings, i \in 0..MaxText, ch \in {"h", "i"} :
                   (ENABLED (/\ TextInsert(p, i, ch, "none", 0)
                             /\ last'.res = "Ok"
                             /\ cell'[p].text = s))
                      <=> (ENABLED (/\ TextInsert(g, i, ch, "none", 0)
                                    /\ last'.res = "Ok"
                                    /\ nodes'[cell[g].node].text = s))
             /\ \A s \in C39_Strings, ch \in {"h", "i"} :
                   (ENABLED (/\ TextPush(p, ch, "none", 0)
                             /\ last'.res = "Ok"
                             /\ cell'[p].text = s))
                      <=> (ENABLED (/\ TextPush(g, ch, "none", 0)
                                    /\ last'.res = "Ok"
                                    /\ nodes'[cell[g].node].text = s))
             /\ \A s \in C39_Strings, i \in 0..MaxText, n \in 1..MaxText :
                   (ENABLED (/\ TextDelete(p, i, n, 0)
                             /\ last'.res = "Ok"
                             /\ cell'[p].text = s))
                      <=> (ENABLED (/\ TextDelete(g, i, n, 0)
                                    /\ last'.res = "Ok"
                                    /\ nodes'[cell[g].node].text = s))
             /\ \A s \in C39_Strings :
                   (ENABLED (TextGetText(p, 0) /\ last'.res = "Ok" /\ last'.val.s = s))
                      <=> (ENABLED (TextGetText(g, 0) /\ last'.res = "Ok"
                                    /\ last'.val.s = s))
             /\ \A n \in 0..MaxText :
                   (ENABLED (TextLength(p, 0) /\ last'.res = "Ok" /\ last'.val.n = n))
                      <=> (ENABLED (TextLength(g, 0) /\ last'.res = "Ok"
                                    /\ last'.val.n = n))

\* a buffered text and a root text hold the same two characters after
\* inserts and pushes on both, and one of them has just been read
C39_BothHoldSameText ==
    /\ last.op = "text.get_text"
    /\ last.val.s = <<"i", "h">>
    /\ \E p, g \in HandlesOf("text") :
          /\ IsPrelim(cell[p])
          /\ ~IsPrelim(cell[g])
          /\ cell[p].text = <<"i", "h">>
          /\ nodes[cell[g].node].text = <<"i", "h">>
\* C40: insert and push with attributes on a Prelim YText or YXmlText return
\* InvalidPrelimOp and leave the buffer as it was; on any YText an attribute
\* string that is no JSON or no JSON object returns InvalidFmt before the
\* value is looked at: no transaction is opened and nothing changes.
C40_AttributesRefused ==
    [][last'.op \in {"text.insert", "text.push", "xtext.insert", "xtext.push"} =>
          /\ \A h \in HandlesOf("text"), i \in 0..MaxText, a \in AttrArgs, t \in TxnArgs :
                (TextInsert(h, i, "i", a, t) \/ TextPush(h, "i", a, t)) =>
                   /\ a \in {"[]", "x"} =>
                         /\ last'.res = "InvalidFmt"
                         /\ last'.peak = Cardinality(open)
                         /\ ~last'.uaf
                         /\ UNCHANGED <<txn, open, cell, nodes, dirty, crashed>>
                   /\ (a = "{}" /\ IsPrelim(cell[h])) =>
                         /\ last'.res = "InvalidPrelimOp"
                         /\ UNCHANGED <<txn, open, cell, nodes, dirty, crashed>>
          /\ \A h \in HandlesOf("xtext"), i \in 0..MaxText, t \in TxnArgs :
                (/\ IsPrelim(cell[h])
                 /\ XmlTextInsert(h, i, "i", TRUE, t) \/ XmlTextPush(h, "i", TRUE, t))
                   => /\ last'.res = "InvalidPrelimOp"
                      /\ UNCHANGED <<txn, open, cell, nodes, dirty, crashed>>]_vars

\* a root text was pushed a malformed attribute string while a transaction
\* held the document, and the answer was InvalidFmt
C40_MalformedWhileHeld ==
    /\ last.op = "text.push"
    /\ last.res = "InvalidFmt"
    /\ open # {}
    /\ HandlesOf("text") # {}
    /\ \A h \in HandlesOf("text") : ~IsPrelim(cell[h])
====
